---- MODULE Spec2Model ----
(***************************************************************************)
(* A model of the text layout core of azul-text-layout:                    *)
(*   - split_text_into_words (src/src/text_layout.rs), the tokenizer,      *)
(*   - position_words (src/src/text_layout.rs), the word positioner.       *)
(* Each function is modelled as the loop it is: one action per iteration   *)
(* of the loop, one action for the code after the loop.                    *)
(***************************************************************************)
EXTENDS Integers, Sequences, FiniteSets, TLC

(***************************************************************************)
(* Bounds of the model.                                                    *)
(***************************************************************************)
\* longest input text of the tokenizer, in characters
MaxLen == 4
\* longest token list given to position_words
MaxTokens == 4

VARIABLES
    pc,                        \* which function runs, and where it is
    \* ---- split_text_into_words
    text,                      \* the argument, a sequence of characters
    normalized_string,         \* text.nfc().collect::<String>()
    words,                     \* Vec<Word>
    current_word_start,
    last_char_idx,
    last_char,
    last_char_was_whitespace,
    char_pos,                  \* position of char_indices() in normalized_string
    removed_return,            \* whether words.pop() ran (line 104)
    \* ---- position_words
    words_items,               \* words.items: the token kinds
    shaped_words,              \* &ShapedWords
    text_layout_options,       \* &ResolvedTextLayoutOptions
    line_breaks,
    word_positions,
    line_caret_x,
    line_caret_y,
    shaped_word_idx,
    last_shaped_word_word_idx,
    last_line_start_idx,
    word_idx,                  \* position of enumerate() in words.items
    result,                    \* the WordPositions returned, <<>> before
    \* ---- matches_html_element
    css_path,                  \* css_path.selectors
    node_id,                   \* the node the path is matched against
    expected_path_ending,      \* Option<CssPathPseudoSelector>
    current_idx,               \* CssGroupIterator::current_idx
    last_reason,               \* CssGroupIterator::last_reason
    current_node,              \* Option<NodeId>
    direct_parent_has_to_match,
    last_selector_matched,
    content_group,             \* the group the iterator yielded last
    is_last_content_group,     \* the flag computed for that group
    groups_taken,              \* how many groups the iterator has yielded
    match_result,              \* the value returned, <<>> before
    \* ---- InlineTextLayout::align_children_horizontal
    inline_text_layout,        \* self
    old_inline_text_layout,    \* self as it was when the function was called
    parent_size,
    horizontal_alignment,
    \* ---- InlineText::hit_test
    inline_text,               \* self
    hit_position,              \* position
    hit_relative_to_inline_text,
    global_char_hit,
    global_word_hit,
    global_glyph_hit,
    global_text_content_hit,
    line_index,                \* position of enumerate() in self.lines
    hits,                      \* the InlineTextHits produced so far
    \* ---- ParsedFont::from_bytes
    font_tables,               \* the tables of the selected face
    font_crate,                \* which copy of from_bytes runs
    font_statement,            \* the statement from_bytes is at
    from_bytes_result,
    \* ---- ShapedTextBufferUnsized::get_word_visual_width_unscaled
    infos,                     \* self.infos, the Advance of every glyph
    overflow_checks,           \* whether the build checks integer overflow
    info_idx,                  \* position of iter() in self.infos
    visual_width_unscaled,     \* the sum so far, a usize
    \* ---- LineCaretIntersection::new
    caret_args,
    caret_outcome,
    \* ---- get_inline_text, the glyphs of one word
    word_glyph_infos,
    glyph_options,
    all_glyphs_in_this_word,
    x_pos_in_word_px,
    glyph_info_idx,
    \* ---- CssGroupIterator
    iterator_css_path,
    iterator_current_idx,
    iterator_last_reason,
    yielded,
    \* ---- ShapedWords::get_line_height
    line_height_self,
    line_height_target,
    line_height_returned,
    \* ---- the second call of split_text_into_words
    first_call_words,
    \* ---- InlineTextLayout::get_trailing
    built_inline_text_layout,
    get_trailing_returned

splitVars == <<text, normalized_string, words, current_word_start, last_char_idx,
               last_char, last_char_was_whitespace, char_pos, removed_return>>

posVars == <<words_items, shaped_words, text_layout_options, line_breaks,
             word_positions, line_caret_x, line_caret_y, shaped_word_idx,
             last_shaped_word_word_idx, last_line_start_idx, word_idx, result>>

cssVars == <<css_path, node_id, expected_path_ending, current_idx, last_reason,
             current_node, direct_parent_has_to_match, last_selector_matched,
             content_group, is_last_content_group, groups_taken, match_result>>

alignVars == <<inline_text_layout, old_inline_text_layout, parent_size,
               horizontal_alignment>>

hitVars == <<inline_text, hit_position, hit_relative_to_inline_text, global_char_hit,
             global_word_hit, global_glyph_hit, global_text_content_hit, line_index,
             hits>>

fontVars == <<font_tables, font_crate, font_statement, from_bytes_result>>

widthVars == <<infos, overflow_checks, info_idx, visual_width_unscaled>>

caretVars == <<caret_args, caret_outcome>>

glyphVars == <<word_glyph_infos, glyph_options, all_glyphs_in_this_word, x_pos_in_word_px, glyph_info_idx>>

iterVars == <<iterator_css_path, iterator_current_idx, iterator_last_reason, yielded>>

lineHeightVars == <<line_height_self, line_height_target, line_height_returned>>

elideVars == <<first_call_words>>

trailingVars == <<built_inline_text_layout, get_trailing_returned>>

\* the variables of the functions modelled further below
restVars == <<cssVars, alignVars, hitVars, fontVars, widthVars, caretVars, glyphVars, iterVars, lineHeightVars, elideVars, trailingVars>>

\* the variables matches_html_element leaves alone
nonCssVars == <<splitVars, posVars, alignVars, hitVars, fontVars, widthVars, caretVars, glyphVars, iterVars, lineHeightVars, elideVars, trailingVars>>

\* the variables align_children_horizontal leaves alone
nonAlignVars == <<splitVars, posVars, cssVars, hitVars, fontVars, widthVars, caretVars, glyphVars, iterVars, lineHeightVars, elideVars, trailingVars>>

\* the variables hit_test leaves alone
nonHitVars == <<splitVars, posVars, cssVars, alignVars, fontVars, widthVars, caretVars, glyphVars, iterVars, lineHeightVars, elideVars, trailingVars>>

\* the variables from_bytes leaves alone
nonFontVars == <<splitVars, posVars, cssVars, alignVars, hitVars, widthVars, caretVars, glyphVars, iterVars, lineHeightVars, elideVars, trailingVars>>

\* the variables get_word_visual_width_unscaled leaves alone
nonWidthVars == <<splitVars, posVars, cssVars, alignVars, hitVars, fontVars, caretVars, glyphVars, iterVars, lineHeightVars, elideVars, trailingVars>>

\* the variables LineCaretIntersection::new leaves alone
nonCaretVars == <<splitVars, posVars, cssVars, alignVars, hitVars, fontVars, widthVars, glyphVars, iterVars, lineHeightVars, elideVars, trailingVars>>

\* the variables get_inline_text, the glyphs of one word leaves alone
nonGlyphVars == <<splitVars, posVars, cssVars, alignVars, hitVars, fontVars, widthVars, caretVars, iterVars, lineHeightVars, elideVars, trailingVars>>

\* the variables CssGroupIterator leaves alone
nonIterVars == <<splitVars, posVars, cssVars, alignVars, hitVars, fontVars, widthVars, caretVars, glyphVars, lineHeightVars, elideVars, trailingVars>>

\* the variables ShapedWords::get_line_height leaves alone
nonLineHeightVars == <<splitVars, posVars, cssVars, alignVars, hitVars, fontVars, widthVars, caretVars, glyphVars, iterVars, elideVars, trailingVars>>

\* the variables the second call of split_text_into_words leaves alone
nonElideVars == <<splitVars, posVars, cssVars, alignVars, hitVars, fontVars, widthVars, caretVars, glyphVars, iterVars, lineHeightVars, trailingVars>>

\* the variables InlineTextLayout::get_trailing leaves alone
nonTrailingVars == <<splitVars, posVars, cssVars, alignVars, hitVars, fontVars, widthVars, caretVars, glyphVars, iterVars, lineHeightVars, elideVars>>

vars == <<pc, splitVars, posVars, restVars>>

\* matches_html_element does not run
CssIdle ==
    /\ css_path = <<>>
    /\ node_id = 0
    /\ expected_path_ending = <<>>
    /\ current_idx = 0
    /\ last_reason = "Children"
    /\ current_node = <<>>
    /\ direct_parent_has_to_match = FALSE
    /\ last_selector_matched = FALSE
    /\ content_group = <<>>
    /\ is_last_content_group = FALSE
    /\ groups_taken = 0
    /\ match_result = <<>>

\* align_children_horizontal does not run
AlignIdle ==
    /\ inline_text_layout = <<>>
    /\ old_inline_text_layout = <<>>
    /\ parent_size = <<>>
    /\ horizontal_alignment = "Left"

\* hit_test does not run
HitIdle ==
    /\ inline_text = <<>>
    /\ hit_position = <<>>
    /\ hit_relative_to_inline_text = <<>>
    /\ global_char_hit = 0
    /\ global_word_hit = 0
    /\ global_glyph_hit = 0
    /\ global_text_content_hit = 0
    /\ line_index = 0
    /\ hits = <<>>

\* from_bytes does not run
FontIdle ==
    /\ font_tables = {}
    /\ font_crate = "src"
    /\ font_statement = 1
    /\ from_bytes_result = "running"

\* get_word_visual_width_unscaled does not run
WidthIdle ==
    /\ infos = <<>>
    /\ overflow_checks = FALSE
    /\ info_idx = 0
    /\ visual_width_unscaled = <<>>

\* LineCaretIntersection::new does not run
CaretIdle ==
    /\ caret_args = <<>>
    /\ caret_outcome = <<>>

\* get_inline_text, the glyphs of one word does not run
GlyphIdle ==
    /\ word_glyph_infos = <<>>
    /\ glyph_options = <<>>
    /\ all_glyphs_in_this_word = <<>>
    /\ x_pos_in_word_px = 0
    /\ glyph_info_idx = 0

\* CssGroupIterator does not run
IterIdle ==
    /\ iterator_css_path = <<>>
    /\ iterator_current_idx = 0
    /\ iterator_last_reason = "Children"
    /\ yielded = <<>>

\* ShapedWords::get_line_height does not run
LineHeightIdle ==
    /\ line_height_self = <<>>
    /\ line_height_target = 0
    /\ line_height_returned = <<>>

\* the second call of split_text_into_words does not run
ElideIdle ==
    /\ first_call_words = <<>>

\* InlineTextLayout::get_trailing does not run
TrailingIdle ==
    /\ built_inline_text_layout = <<>>
    /\ get_trailing_returned = <<>>

\* none of the functions modelled further below runs
RestIdle == CssIdle /\ AlignIdle /\ HitIdle /\ FontIdle /\ WidthIdle /\ CaretIdle /\ GlyphIdle /\ IterIdle /\ LineHeightIdle /\ ElideIdle /\ TrailingIdle

(***************************************************************************)
(* Characters.  The alphabet holds an ASCII letter, the three whitespace   *)
(* characters the tokenizer knows, and a canonical pair: "a" followed by   *)
(* the combining acute accent U+0301 composes to U+00E1 under NFC.         *)
(***************************************************************************)
Chars == {"a", "acute", "aacute", " ", "\r", "\n"}

\* char::len_utf8: U+0301 is CC 81, U+00E1 is C3 A1, the rest is ASCII
len_utf8(ch) == IF ch \in {"acute", "aacute"} THEN 2 ELSE 1

\* all texts of at most MaxLen characters
Texts == UNION {[1..n -> Chars] : n \in 0..MaxLen}

\* text.nfc(): canonical composition, left to right.  A combining acute that
\* follows the starter "a" composes with it; after U+00E1 (or at the start of
\* the text, or after whitespace) it has nothing to compose with and stays.
RECURSIVE nfc(_)
nfc(s) ==
    IF s = <<>> THEN <<>>
    ELSE LET init == nfc(SubSeq(s, 1, Len(s) - 1))
             ch   == s[Len(s)]
         IN  IF ch = "acute" /\ init # <<>> /\ init[Len(init)] = "a"
             THEN [init EXCEPT ![Len(init)] = "aacute"]
             ELSE Append(init, ch)

\* the bytes of a string: byte k of character number i is <<i-th char, k>>
RECURSIVE Bytes(_)
Bytes(s) ==
    IF s = <<>> THEN <<>>
    ELSE Bytes(SubSeq(s, 1, Len(s) - 1))
         \o [k \in 1..len_utf8(s[Len(s)]) |-> <<s[Len(s)], k>>]

\* String::len(): the length in bytes
ByteLen(s) == Len(Bytes(s))

\* char_indices(): the byte offset of character number i (1-based)
ch_idx_of(s, i) == ByteLen(SubSeq(s, 1, i - 1))

Min(a, b) == IF a <= b THEN a ELSE b

Max(a, b) == IF a >= b THEN a ELSE b

Word(start, end, type) == [index |-> [start |-> start, end |-> end], word_type |-> type]

(***************************************************************************)
(* split_text_into_words                                                   *)
(***************************************************************************)
SplitInit ==
    /\ pc = "split_loop"
    /\ text \in Texts
    /\ normalized_string = nfc(text)
    /\ words = <<>>
    /\ current_word_start = 0
    /\ last_char_idx = 0
    /\ last_char = "0"
    /\ last_char_was_whitespace = FALSE
    /\ char_pos = 1
    /\ removed_return = FALSE

\* should_push_delimiter (lines 42-63): the tokens pushed for the delimiter
should_push_delimiter(ch, ch_idx) ==
    CASE ch = " "  -> <<Word(last_char_idx + 1, ch_idx + 1, "Space")>>
      [] ch = "\n" -> IF last_char = "\r"
                      THEN <<Word(last_char_idx, ch_idx + 1, "Return")>>
                      ELSE <<Word(last_char_idx + 1, ch_idx + 1, "Return")>>
      [] OTHER     -> <<>>

\* should_push_word (lines 66-73)
should_push_word(current_char_is_whitespace, ch_idx) ==
    IF current_char_is_whitespace /\ ~last_char_was_whitespace
    THEN <<Word(current_word_start, ch_idx, "Word")>>
    ELSE <<>>

\* one iteration of the loop over char_indices() (lines 39-88)
SplitLoop ==
    /\ pc = "split_loop"
    /\ char_pos <= Len(normalized_string)
    /\ LET ch     == normalized_string[char_pos]
           ch_idx == ch_idx_of(normalized_string, char_pos)
           current_char_is_whitespace == ch \in {" ", "\r", "\n"}
       IN  /\ words' = words \o should_push_word(current_char_is_whitespace, ch_idx)
                             \o should_push_delimiter(ch, ch_idx)
           /\ current_word_start' =
                 IF current_char_is_whitespace THEN ch_idx + 1 ELSE current_word_start
           /\ last_char_was_whitespace' = current_char_is_whitespace
           /\ last_char_idx' = ch_idx
           /\ last_char' = ch
    /\ char_pos' = char_pos + 1
    /\ UNCHANGED <<pc, text, normalized_string, removed_return, posVars, restVars>>

\* "Push the last word" (lines 90-96)
push_last_word(ws) ==
    IF current_word_start # last_char_idx + 1
    THEN Append(ws, Word(current_word_start, ByteLen(normalized_string), "Word"))
    ELSE ws

\* "If the last item is a Return, remove it" (lines 98-105)
last_is_return(ws) == ws # <<>> /\ ws[Len(ws)].word_type = "Return"

\* the code after the loop (lines 90-112)
SplitFinish ==
    /\ pc = "split_loop"
    /\ char_pos > Len(normalized_string)
    /\ LET pushed == push_last_word(words)
       IN  /\ removed_return' = last_is_return(pushed)
           /\ words' = IF last_is_return(pushed)
                       THEN SubSeq(pushed, 1, Len(pushed) - 1)
                       ELSE pushed
    /\ pc' = "split_done"
    /\ UNCHANGED <<text, normalized_string, current_word_start, last_char_idx,
                   last_char, last_char_was_whitespace, char_pos, posVars, restVars>>

\* position_words does not run in the tokenizer's specification
PosIdle ==
    /\ words_items = <<>>
    /\ shaped_words = <<>>
    /\ text_layout_options = <<>>
    /\ line_breaks = <<>>
    /\ word_positions = <<>>
    /\ line_caret_x = 0
    /\ line_caret_y = 0
    /\ shaped_word_idx = 0
    /\ last_shaped_word_word_idx = 0
    /\ last_line_start_idx = 0
    /\ word_idx = 0
    /\ result = <<>>

SplitNext == SplitLoop \/ SplitFinish

\* the tokenizer alone: split_text_into_words on every text
InitOfSplit == SplitInit /\ PosIdle /\ RestIdle

SpecSplit == InitOfSplit /\ [][SplitNext]_vars

\* split_text_into_words does not run in the positioner's specification
SplitIdle ==
    /\ text = <<>>
    /\ normalized_string = <<>>
    /\ words = <<>>
    /\ current_word_start = 0
    /\ last_char_idx = 0
    /\ last_char = "0"
    /\ last_char_was_whitespace = FALSE
    /\ char_pos = 1
    /\ removed_return = FALSE

(***************************************************************************)
(* position_words.  Lengths are whole numbers of pixels; the inputs are    *)
(* chosen so that the f32 arithmetic of the code is exact on them          *)
(* (units_per_em is a power of two and divides the font size).             *)
(***************************************************************************)
DEFAULT_LINE_HEIGHT == 1

DEFAULT_WORD_SPACING == 1

\* Option<T>: None is <<>>, Some(v) is <<v>>
None == <<>>

Some(v) == <<v>>

\* Option::unwrap_or
unwrap_or(o, default) == IF o = None THEN default ELSE o[1]

\* usize::saturating_sub
saturating_sub(a, b) == IF a >= b THEN a - b ELSE 0

\* the kinds of token
Tokens == {"Word", "Return", "Space"}

\* Words.items, by word_type: position_words reads nothing else of a token
TokenLists == UNION {[1..n -> Tokens] : n \in 0..MaxTokens}

\* the number of Word tokens among the first n tokens of ts
RECURSIVE NumberOfWords(_, _)
NumberOfWords(ts, n) ==
    IF n = 0 THEN 0
    ELSE NumberOfWords(ts, n - 1) + (IF ts[n] = "Word" THEN 1 ELSE 0)

\* the shaped words a font can give: a one-glyph word 2 units wide and a
\* three-glyph word 6 units wide
ShapedWordInputs ==
    { [glyph_infos |-> <<[placement |-> "None"]>>, word_width |-> 2],
      [glyph_infos |-> <<[placement |-> "None"], [placement |-> "None"],
                         [placement |-> "None"]>>, word_width |-> 6] }

\* shape_words: one ShapedWord per Word token, in token order, with the
\* font's space advance and units per em
shape_words(ts) ==
    { [items |-> items, space_advance |-> 2, font_metrics_units_per_em |-> 4] :
        items \in [1..NumberOfWords(ts, Len(ts)) -> ShapedWordInputs] }

\* ResolvedTextLayoutOptions
LayoutOptions ==
    [ font_size_px         : {0, 4},
      line_height          : {None, Some(2)},
      letter_spacing       : {None, Some(-4)},
      word_spacing         : {None},
      max_horizontal_width : {None, Some(5), Some(9)},
      leading              : {None, Some(3)} ]

\* value / units_per_em * target_font_size
scale_px(value, units_per_em, target_font_size) ==
    (value * target_font_size) \div units_per_em

\* ShapedWord::get_word_width
get_word_width(shaped_word, units_per_em, target_font_size) ==
    scale_px(shaped_word.word_width, units_per_em, target_font_size)

\* ShapedWord::number_of_glyphs: the glyphs that are not diacritic marks
number_of_glyphs(shaped_word) ==
    Cardinality({g \in DOMAIN shaped_word.glyph_infos :
                    shaped_word.glyph_infos[g].placement = "None"})

\* ShapedWords::get_space_advance_px
get_space_advance_px(sw, target_font_size) ==
    scale_px(sw.space_advance, sw.font_metrics_units_per_em, target_font_size)

font_size_px == text_layout_options.font_size_px

space_advance_px == get_space_advance_px(shaped_words, font_size_px)

word_spacing_px ==
    space_advance_px * unwrap_or(text_layout_options.word_spacing, DEFAULT_WORD_SPACING)

line_height_px ==
    space_advance_px * unwrap_or(text_layout_options.line_height, DEFAULT_LINE_HEIGHT)

spacing_multiplier == unwrap_or(text_layout_options.letter_spacing, 0)

last_word_idx == saturating_sub(Len(words_items), 1)

\* LineCaretIntersection::new with a fault: a line break that leaves the caret
\* on the line it was on (new_y: current_y)
LineCaretIntersection_new_same_line(current_x, word_width, current_y, line_height, max_width) ==
    IF max_width = None
    THEN [kind |-> "NoLineBreak", new_x |-> current_x + word_width, new_y |-> current_y]
    ELSE IF current_x = 0 /\ max_width[1] < word_width
    THEN [kind |-> "NoLineBreak", new_x |-> current_x + word_width, new_y |-> current_y]
    ELSE IF current_x + word_width > max_width[1]
    THEN [kind |-> "LineBreak", new_x |-> 0, new_y |-> current_y]
    ELSE [kind |-> "NoLineBreak", new_x |-> current_x + word_width, new_y |-> current_y]

\* LineCaretIntersection::new
LineCaretIntersection_new(current_x, word_width, current_y, line_height, max_width) ==
    IF max_width = None
    THEN [kind |-> "NoLineBreak", new_x |-> current_x + word_width, new_y |-> current_y]
    ELSE IF current_x = 0 /\ max_width[1] < word_width
    THEN [kind |-> "NoLineBreak", new_x |-> current_x + word_width, new_y |-> current_y]
    ELSE IF current_x + word_width > max_width[1]
    THEN [kind |-> "LineBreak", new_x |-> 0, new_y |-> current_y + line_height]
    ELSE [kind |-> "NoLineBreak", new_x |-> current_x + word_width, new_y |-> current_y]

LogicalPosition(x, y) == [x |-> x, y |-> y]

LogicalSize(width, height) == [width |-> width, height |-> height]

WordPosition(shaped_word_index, position, size) ==
    [shaped_word_index |-> shaped_word_index, position |-> position, size |-> size]

\* InlineTextLine { words: word_start..=word_end, bounds }
InlineTextLine(word_start, word_end, bounds) ==
    [word_start |-> word_start, word_end |-> word_end, bounds |-> bounds]

\* the line pushed when token number idx breaks the line
flushed_line(idx) ==
    InlineTextLine(last_line_start_idx,
                   Max(saturating_sub(idx, 1), last_line_start_idx),
                   [origin |-> LogicalPosition(0, line_caret_y),
                    size   |-> LogicalSize(line_caret_x, font_size_px + line_height_px)])

PosInit ==
    /\ pc = "pos_loop"
    /\ words_items \in TokenLists
    /\ shaped_words \in shape_words(words_items)
    /\ text_layout_options \in LayoutOptions
    /\ line_breaks = <<>>
    /\ word_positions = <<>>
    /\ line_caret_x = unwrap_or(text_layout_options.leading, 0)
    /\ line_caret_y = font_size_px + line_height_px
    /\ shaped_word_idx = 0
    /\ last_shaped_word_word_idx = 0
    /\ last_line_start_idx = 0
    /\ word_idx = 0
    /\ result = <<>>

\* the size of the line box every token gets
line_box(width) == LogicalSize(width, font_size_px + line_height_px)

\* the WordPosition of a Word token placed at (x, y) (lines 227-234, 250-257)
word_position_of_word(x, y, shaped_word_width) ==
    WordPosition(Some(shaped_word_idx), LogicalPosition(x, y), line_box(shaped_word_width))

\* the WordPosition of a Space or Return token with a fault: it names the
\* shaped word the caret is at (shaped_word_index: Some(shaped_word_idx))
word_position_of_delimiter_indexed(width) ==
    WordPosition(Some(shaped_word_idx), LogicalPosition(line_caret_x, line_caret_y),
                 line_box(width))

\* the WordPosition of a Space or Return token (lines 279-283, 302-306, 323-327)
word_position_of_delimiter(width) ==
    WordPosition(None, LogicalPosition(line_caret_x, line_caret_y), line_box(width))

\* letter_spacing_px (lines 206-207)
letter_spacing_px(shaped_word) ==
    spacing_multiplier * saturating_sub(number_of_glyphs(shaped_word), 1)

\* shaped_word_width (lines 210-213)
shaped_word_width_px(shaped_word) ==
    get_word_width(shaped_word, shaped_words.font_metrics_units_per_em, font_size_px)
        + letter_spacing_px(shaped_word)

\* Token::Word (lines 199-265)
PosWord ==
    /\ pc = "pos_loop"
    /\ word_idx < Len(words_items)
    /\ words_items[word_idx + 1] = "Word"
    /\ IF shaped_word_idx >= Len(shaped_words.items)
       THEN \* None => continue
            UNCHANGED <<line_breaks, word_positions, line_caret_x, line_caret_y,
                        shaped_word_idx, last_shaped_word_word_idx, last_line_start_idx>>
       ELSE LET shaped_word == shaped_words.items[shaped_word_idx + 1]
                shaped_word_width == shaped_word_width_px(shaped_word)
                caret_intersection ==
                    LineCaretIntersection_new(line_caret_x, shaped_word_width, line_caret_y,
                                              font_size_px + line_height_px,
                                              text_layout_options.max_horizontal_width)
            IN  /\ IF caret_intersection.kind = "NoLineBreak"
                   THEN /\ word_positions' =
                              Append(word_positions,
                                     word_position_of_word(line_caret_x, line_caret_y,
                                                           shaped_word_width))
                        /\ line_caret_x' = caret_intersection.new_x
                        /\ line_caret_y' = caret_intersection.new_y
                        /\ UNCHANGED <<line_breaks, last_line_start_idx>>
                   ELSE /\ line_breaks' = Append(line_breaks, flushed_line(word_idx))
                        /\ last_line_start_idx' = word_idx
                        /\ word_positions' =
                              Append(word_positions,
                                     word_position_of_word(caret_intersection.new_x,
                                                           caret_intersection.new_y,
                                                           shaped_word_width))
                        /\ line_caret_x' = caret_intersection.new_x + shaped_word_width
                        /\ line_caret_y' = caret_intersection.new_y
                /\ shaped_word_idx' = shaped_word_idx + 1
                /\ last_shaped_word_word_idx' = word_idx
    /\ word_idx' = word_idx + 1
    /\ UNCHANGED <<pc, words_items, shaped_words, text_layout_options, result, splitVars, restVars>>

\* Token::Return (lines 266-288)
PosReturn ==
    /\ pc = "pos_loop"
    /\ word_idx < Len(words_items)
    /\ words_items[word_idx + 1] = "Return"
    /\ IF word_idx # last_word_idx
       THEN /\ line_breaks' = Append(line_breaks, flushed_line(word_idx))
            /\ last_line_start_idx' = word_idx + 1
            /\ line_caret_x' = 0
            /\ line_caret_y' = line_caret_y + font_size_px + line_height_px
       ELSE UNCHANGED <<line_breaks, last_line_start_idx, line_caret_x, line_caret_y>>
    /\ word_positions' = Append(word_positions, word_position_of_delimiter(0))
    /\ word_idx' = word_idx + 1
    /\ UNCHANGED <<pc, words_items, shaped_words, text_layout_options, shaped_word_idx,
                   last_shaped_word_word_idx, result, splitVars, restVars>>

\* Token::Space (lines 289-334)
PosSpace ==
    /\ pc = "pos_loop"
    /\ word_idx < Len(words_items)
    /\ words_items[word_idx + 1] = "Space"
    /\ LET x_advance == word_spacing_px
           caret_intersection ==
               LineCaretIntersection_new(line_caret_x, x_advance, line_caret_y,
                                         font_size_px + line_height_px,
                                         text_layout_options.max_horizontal_width)
       IN  /\ word_positions' = Append(word_positions, word_position_of_delimiter(x_advance))
           /\ IF caret_intersection.kind = "NoLineBreak"
              THEN /\ line_caret_x' = caret_intersection.new_x
                   /\ line_caret_y' = caret_intersection.new_y
                   /\ UNCHANGED <<line_breaks, last_line_start_idx>>
              ELSE IF word_idx # last_word_idx
              THEN /\ line_breaks' = Append(line_breaks, flushed_line(word_idx))
                   /\ last_line_start_idx' = word_idx
                   /\ line_caret_x' = caret_intersection.new_x
                   /\ line_caret_y' = caret_intersection.new_y
              ELSE UNCHANGED <<line_breaks, last_line_start_idx, line_caret_x, line_caret_y>>
    /\ word_idx' = word_idx + 1
    /\ UNCHANGED <<pc, words_items, shaped_words, text_layout_options, shaped_word_idx,
                   last_shaped_word_word_idx, result, splitVars, restVars>>

\* the last line (lines 338-344)
last_line ==
    InlineTextLine(last_line_start_idx, last_shaped_word_word_idx,
                   [origin |-> LogicalPosition(0, line_caret_y),
                    size   |-> line_box(line_caret_x)])

\* longest_line_width (lines 346-349): fold(0.0, f32::max) over the line widths
RECURSIVE longest_line_width(_)
longest_line_width(lines) ==
    IF lines = <<>> THEN 0
    ELSE Max(longest_line_width(SubSeq(lines, 1, Len(lines) - 1)),
             lines[Len(lines)].bounds.size.width)

\* content_size_y with a fault: the line height is left out
content_size_y_font_size_only(lines) == Len(lines) * font_size_px

\* content_size_y (line 351)
content_size_y(lines) == Len(lines) * (font_size_px + line_height_px)

\* content_size_x (lines 352-356)
content_size_x(lines) ==
    unwrap_or(text_layout_options.max_horizontal_width, longest_line_width(lines))

\* the code after the loop (lines 338-367): the WordPositions returned, whose
\* word_positions and line_breaks are the variables of these names
PosFinish ==
    /\ pc = "pos_loop"
    /\ word_idx >= Len(words_items)
    /\ line_breaks' = Append(line_breaks, last_line)
    /\ result' = [ trailing               |-> line_caret_x,
                   number_of_shaped_words |-> shaped_word_idx,
                   number_of_lines        |-> Len(line_breaks'),
                   content_size           |-> LogicalSize(content_size_x(line_breaks'),
                                                          content_size_y(line_breaks')) ]
    /\ pc' = "pos_done"
    /\ UNCHANGED <<words_items, shaped_words, text_layout_options, word_positions,
                   line_caret_x, line_caret_y, shaped_word_idx, last_shaped_word_word_idx,
                   last_line_start_idx, word_idx, splitVars, restVars>>

PosNext == PosWord \/ PosReturn \/ PosSpace \/ PosFinish

\* the positioner alone: position_words on every token list, font and options
InitOfPos == PosInit /\ SplitIdle /\ RestIdle

SpecPos == InitOfPos /\ [][PosNext]_vars

(***************************************************************************)
(* Helpers of the tokenizer's properties.                                  *)
(***************************************************************************)
\* the bytes of b in the byte range [s, e), as far as they exist
Slice(b, s, e) == [k \in 1..(Min(e, Len(b)) - s) |-> b[s + k]]

\* byte offset p (0-based) lies in the range of token w
Covers(w, p) == w.index.start <= p /\ p < w.index.end

\* the byte ranges of the Word and Space tokens of ws, concatenated in order
RECURSIVE ConcatWordSpace(_, _)
ConcatWordSpace(b, ws) ==
    IF ws = <<>> THEN <<>>
    ELSE ConcatWordSpace(b, SubSeq(ws, 1, Len(ws) - 1))
         \o (IF ws[Len(ws)].word_type \in {"Word", "Space"}
             THEN Slice(b, ws[Len(ws)].index.start, ws[Len(ws)].index.end)
             ELSE <<>>)

\* the first n bytes of b without the bytes a Return token of ws covers
RECURSIVE WithoutReturns(_, _, _)
WithoutReturns(b, ws, n) ==
    IF n = 0 THEN <<>>
    ELSE WithoutReturns(b, ws, n - 1)
         \o (IF \E k \in DOMAIN ws : ws[k].word_type = "Return" /\ Covers(ws[k], n - 1)
             THEN <<>>
             ELSE <<b[n]>>)

\* the positions (1-based) of the character ch in s
PositionsOf(s, ch) == {i \in DOMAIN s : s[i] = ch}

\* the tokens of the given type
TokensOfType(ws, type) == {k \in DOMAIN ws : ws[k].word_type = type}

(***************************************************************************)
(* C1: the byte ranges of the Word and Space tokens, concatenated in       *)
(* order, are the NFC-normalized text without the bytes of the Return      *)
(* tokens.                                                                 *)
(***************************************************************************)
C1_TokensPartitionInput ==
    pc = "split_done" =>
        ConcatWordSpace(Bytes(normalized_string), words)
            = WithoutReturns(Bytes(normalized_string), words, ByteLen(normalized_string))

(***************************************************************************)
(* C2: the token ranges are sorted and do not overlap: every token has     *)
(* start <= end <= byte length of the normalized string, and starts at or  *)
(* after the end of the token before it.                                   *)
(***************************************************************************)
C2_RangesSortedDisjoint ==
    pc = "split_done" =>
        \A k \in DOMAIN words :
            /\ words[k].index.start <= words[k].index.end
            /\ words[k].index.end <= ByteLen(normalized_string)
            /\ k > 1 => words[k].index.start >= words[k - 1].index.end

(***************************************************************************)
(* C3: every "\n" yields exactly one Return token.  After "\r" its range   *)
(* is [i-1, i+1) and no other token covers the "\r"; otherwise its range   *)
(* is [i, i+1), whatever precedes the "\n".  Stated for the runs in which  *)
(* trailing newline elision removed nothing, so that a violation is not    *)
(* the elision at work.                                                    *)
(***************************************************************************)
ExpectedReturn(s, i) ==
    LET b == ch_idx_of(s, i)
    IN  IF i > 1 /\ s[i - 1] = "\r"
        THEN Word(b - 1, b + 1, "Return")
        ELSE Word(b, b + 1, "Return")

C3_NewlineYieldsOneReturn ==
    (pc = "split_done" /\ ~removed_return) =>
        /\ Cardinality(TokensOfType(words, "Return"))
              = Cardinality(PositionsOf(normalized_string, "\n"))
        /\ \A i \in PositionsOf(normalized_string, "\n") :
              /\ Cardinality({k \in DOMAIN words :
                                words[k] = ExpectedReturn(normalized_string, i)}) = 1
              /\ (i > 1 /\ normalized_string[i - 1] = "\r") =>
                    \A k \in DOMAIN words :
                        Covers(words[k], ch_idx_of(normalized_string, i - 1))
                            => words[k] = ExpectedReturn(normalized_string, i)

(***************************************************************************)
(* C4: a "\r" that is followed by a character other than "\n" is           *)
(* tokenized as a Return: a Return token covers the byte of that "\r".     *)
(***************************************************************************)
C4_LoneCarriageReturnIsReturn ==
    pc = "split_done" =>
        \A i \in PositionsOf(normalized_string, "\r") :
            (i < Len(normalized_string) /\ normalized_string[i + 1] # "\n") =>
                \E k \in TokensOfType(words, "Return") :
                    Covers(words[k], ch_idx_of(normalized_string, i))

(***************************************************************************)
(* Helpers of the positioner's properties.                                 *)
(***************************************************************************)
\* the indices (0-based) of the Word tokens
WordTokenIndices == {i \in 0..(Len(words_items) - 1) : words_items[i + 1] = "Word"}

\* the lines whose inclusive word range holds token index i
LinesHolding(i) ==
    {l \in DOMAIN line_breaks :
        line_breaks[l].word_start <= i /\ i <= line_breaks[l].word_end}

\* consecutive entries of word_positions on one line do not step back
CaretMonotonic ==
    \A i \in 1..(Len(word_positions) - 1) :
        word_positions[i].position.y = word_positions[i + 1].position.y
            => word_positions[i + 1].position.x >= word_positions[i].position.x

\* entries i and i+1 of word_positions are on one line, the later to the right
SameLineStep(i) ==
    /\ word_positions[i].position.y = word_positions[i + 1].position.y
    /\ word_positions[i + 1].position.x > word_positions[i].position.x

\* no token has a negative advance and a line break moves the caret down
AdvancesWellFormed ==
    /\ \A k \in DOMAIN shaped_words.items : shaped_word_width_px(shaped_words.items[k]) >= 0
    /\ word_spacing_px >= 0
    /\ font_size_px + line_height_px > 0

(***************************************************************************)
(* C5: position_words returns one WordPosition per token, in token order:  *)
(* entry i has shaped_word_index Some(k) exactly when token i is the k-th  *)
(* Word token (0-based), and None exactly when it is a Space or a Return.  *)
(***************************************************************************)
C5_OneWordPositionPerToken ==
    pc = "pos_done" =>
        /\ Len(word_positions) = Len(words_items)
        /\ \A i \in DOMAIN words_items :
              word_positions[i].shaped_word_index =
                  IF words_items[i] = "Word"
                  THEN Some(NumberOfWords(words_items, i - 1))
                  ELSE None

\* a finished run over Word, Space, Return and a second Word
C5_Witness ==
    /\ pc = "pos_done"
    /\ text_layout_options.font_size_px > 0
    /\ words_items = <<"Word", "Space", "Return", "Word">>
    /\ word_positions[2].shaped_word_index = None
    /\ word_positions[3].shaped_word_index = None
    /\ word_positions[4].shaped_word_index = Some(1)

(***************************************************************************)
(* C6: the index of every Word token lies in the inclusive word range of   *)
(* exactly one line of line_breaks.                                        *)
(***************************************************************************)
C6_LineCoverage ==
    pc = "pos_done" =>
        \A i \in WordTokenIndices : Cardinality(LinesHolding(i)) = 1

(***************************************************************************)
(* C7: two consecutive entries of word_positions with the same position.y  *)
(* have the later position.x >= the earlier position.x, for all token      *)
(* lists and all layout options.                                           *)
(***************************************************************************)
C7_MonotonicCaretAllOptions == CaretMonotonic

(***************************************************************************)
(* C7, as amended: the same, for the runs in which no token has a          *)
(* negative advance (every word width with its letter spacing, and the     *)
(* word spacing, is >= 0) and the line advance font_size_px +              *)
(* line_height_px is positive.                                             *)
(***************************************************************************)
C7_MonotonicCaret == (pc \in {"pos_loop", "pos_done"} /\ AdvancesWellFormed) => CaretMonotonic

\* a finished run with a line break, and two entries side by side on a line
C7_Witness ==
    /\ pc = "pos_done"
    /\ AdvancesWellFormed
    /\ Len(line_breaks) >= 2
    /\ \E i \in 1..(Len(word_positions) - 1) : SameLineStep(i)

(***************************************************************************)
(* C8: a single Word token wider than max_horizontal_width, with the       *)
(* caret starting at x = 0, gives exactly one line and a                   *)
(* content_size.width >= the width of the word.                            *)
(***************************************************************************)
C8_OverwideWordContentWidth ==
    ( /\ pc = "pos_done"
      /\ words_items = <<"Word">>
      /\ unwrap_or(text_layout_options.leading, 0) = 0
      /\ text_layout_options.max_horizontal_width # None
      /\ shaped_word_width_px(shaped_words.items[1])
            > text_layout_options.max_horizontal_width[1] )
    => /\ Len(line_breaks) = 1
       /\ result.content_size.width >= shaped_word_width_px(shaped_words.items[1])

(***************************************************************************)
(* C9: number_of_lines is the length of line_breaks, which is at least 1,  *)
(* and content_size.height is number_of_lines * (font_size_px +            *)
(* line_height_px), line_height_px being the line height multiplier times  *)
(* the space advance in px.                                                *)
(***************************************************************************)
C9_LinesAndHeight ==
    pc = "pos_done" =>
        /\ result.number_of_lines = Len(line_breaks)
        /\ result.number_of_lines >= 1
        /\ result.content_size.height =
              result.number_of_lines
                * (text_layout_options.font_size_px
                   + unwrap_or(text_layout_options.line_height, DEFAULT_LINE_HEIGHT)
                     * get_space_advance_px(shaped_words, text_layout_options.font_size_px))

\* a finished run of three lines with a line height multiplier of 2
C9_Witness ==
    /\ pc = "pos_done"
    /\ text_layout_options.line_height = Some(2)
    /\ text_layout_options.font_size_px > 0
    /\ result.number_of_lines = 3
    /\ result.content_size.height = 24

(***************************************************************************)
(* C10: the lines of line_breaks appear in increasing word_start: each     *)
(* line's word_start is greater than that of the line before it.           *)
(***************************************************************************)
C10_LinesIncreasingWordStart ==
    pc = "pos_done" =>
        \A l \in 2..Len(line_breaks) :
            line_breaks[l].word_start > line_breaks[l - 1].word_start

(***************************************************************************)
(* matches_html_element (src/azul-text-layout/src/azul_core/style.rs):     *)
(* whether a CSS path matches a node of the document.  The path is walked  *)
(* from its right end by CssGroupIterator, one content group per           *)
(* iteration of the loop, while current_node climbs to the parent.         *)
(***************************************************************************)
\* longest CSS path, in selectors
MaxPathLen == 4

\* CssNthChildSelector: Even, Odd and Pattern { repeat, offset }
NthChildSelectors ==
    {<<"Even">>, <<"Odd">>, <<"Pattern", 2, 1>>, <<"Pattern", 2, 3>>, <<"Pattern", 0, 3>>}

\* CssPathPseudoSelector
PseudoSelectors == {<<"Hover">>} \cup {<<"NthChild">> \o x : x \in NthChildSelectors}

\* CssPathSelector
Global == <<"Global">>
Children == <<"Children">>
DirectChildren == <<"DirectChildren">>
Type(t) == <<"Type", t>>
Id(id) == <<"Id", id>>
PseudoSelector(p) == <<"PseudoSelector">> \o p
CssPathSelectors ==
    {Global, Type("body"), Id("main"), Children, DirectChildren}
        \cup {PseudoSelector(p) : p \in PseudoSelectors}

\* CssPath::selectors
CssPaths == UNION {[1..n -> CssPathSelectors] : n \in 0..MaxPathLen}

\* the nodes of the document: body (0) with five children (1..5), the
\* second of which has one child (6)
NodeIds == 0..6

\* node_hierarchy[n]: the parent and the children of a node
node_hierarchy ==
    [n \in NodeIds |->
        [parent   |-> IF n = 0 THEN None ELSE IF n = 6 THEN Some(2) ELSE Some(0),
         children |-> IF n = 0 THEN <<1, 2, 3, 4, 5>> ELSE IF n = 2 THEN <<6>> ELSE <<>>]]

parent_id(n) == node_hierarchy[n].parent

\* node_data[n]: the type of the node and its ids
node_data ==
    [n \in NodeIds |->
        [node_type |-> IF n = 0 THEN "body" ELSE "div",
         ids       |-> IF n \in {1, 5, 6} THEN {"main"} ELSE {}]]

\* the CascadeInfo of every node: its 0-based position among its siblings
\* and whether it is the last of them
construct_html_cascade_tree ==
    [n \in NodeIds |->
        IF parent_id(n) = None
        THEN [index_in_parent |-> 0, is_last_child |-> TRUE]
        ELSE LET siblings == node_hierarchy[parent_id(n)[1]].children
                 child_idx == CHOOSE i \in DOMAIN siblings : siblings[i] = n
             IN  [index_in_parent |-> child_idx - 1,
                  is_last_child   |-> child_idx = Len(siblings)]]

html_node_tree == construct_html_cascade_tree

\* the arguments of matches_html_element
MatchInit ==
    /\ pc = "match_start"
    /\ css_path \in CssPaths
    /\ node_id \in NodeIds
    /\ expected_path_ending \in {None, Some(<<"Hover">>)}
    /\ current_idx = 0
    /\ last_reason = "Children"
    /\ current_node = None
    /\ direct_parent_has_to_match = FALSE
    /\ last_selector_matched = FALSE
    /\ content_group = <<>>
    /\ is_last_content_group = FALSE
    /\ groups_taken = 0
    /\ match_result = None

\* CssGroupIterator::is_last_content_group (lines 125-127)
CssGroupIterator_is_last_content_group(path, idx) ==
    idx + 1 = saturating_sub(Len(path), 1)

is_combinator(selector) == selector \in {Children, DirectChildren}

\* CssGroupIterator::next with a fault: the combinator the walk stops on is
\* not recorded, every group is yielded with the reason of the call before
CssGroupIterator_next_stale_reason(path, idx, reason) ==
    IF idx = 0
    THEN [some |-> FALSE, group |-> <<>>, reason |-> reason, current_idx |-> idx]
    ELSE LET stops   == {j \in 1..idx : is_combinator(path[j])}
             new_idx == IF stops = {} THEN 0
                        ELSE CHOOSE j \in stops : \A k \in stops : k <= j
             current_path == [k \in 1..(idx - new_idx) |-> path[idx + 1 - k]]
         IN  [some |-> TRUE, group |-> current_path, reason |-> reason,
              current_idx |-> IF new_idx = 0 THEN 0 ELSE new_idx - 1]

\* CssGroupIterator::next (lines 133-177): the walk leftwards from
\* current_idx stops on the first combinator or at the start of the path.
\* new_idx counts as in the code, so path[new_idx] here is
\* css_path.get(new_idx - 1) there.
CssGroupIterator_next(path, idx, reason) ==
    IF idx = 0
    THEN [some |-> FALSE, group |-> <<>>, reason |-> reason, current_idx |-> idx]
    ELSE LET stops   == {j \in 1..idx : is_combinator(path[j])}
             new_idx == IF stops = {} THEN 0
                        ELSE CHOOSE j \in stops : \A k \in stops : k <= j
             current_path == [k \in 1..(idx - new_idx) |-> path[idx + 1 - k]]
             new_reason   == IF new_idx = 0 THEN reason ELSE path[new_idx][1]
         IN  IF new_idx = 0
             THEN IF current_path = <<>>
                  THEN [some |-> FALSE, group |-> <<>>, reason |-> new_reason,
                        current_idx |-> idx]
                  ELSE [some |-> TRUE, group |-> current_path, reason |-> new_reason,
                        current_idx |-> 0]
             ELSE [some |-> TRUE, group |-> current_path, reason |-> new_reason,
                   current_idx |-> new_idx - 1]

\* the NthChild arm of selector_group_matches (lines 291-318), given
\* index_in_parent = html_node.index_in_parent + 1: "false" where the code
\* returns false, "true" where it goes on to the next selector, "panic"
\* where the u32 remainder has a zero divisor
nth_child_matches(x, index_in_parent) ==
    CASE x[1] = "Even" -> IF index_in_parent % 2 = 0 THEN "false" ELSE "true"
      [] x[1] = "Odd"  -> IF index_in_parent % 2 = 1 THEN "false" ELSE "true"
      [] x[1] = "Pattern" ->
            LET repeat == x[2]
                offset == x[3]
            IN  IF index_in_parent >= offset
                THEN IF repeat = 0 THEN "panic"
                     ELSE IF (index_in_parent - offset) % repeat # 0
                          THEN "false" ELSE "true"
                ELSE "true"

\* the Hover arm of selector_group_matches (lines 323-330)
hover_matches(ending, is_last) ==
    IF ~is_last THEN "false"
    ELSE IF ending # Some(<<"Hover">>) THEN "false"
    ELSE "true"

\* one arm of the match in selector_group_matches (lines 250-353)
selector_matches(selector, html_node, nd, ending, is_last) ==
    CASE selector[1] = "Global" -> "true"
      [] selector[1] = "Type" -> IF nd.node_type # selector[2] THEN "false" ELSE "true"
      [] selector[1] = "Id" -> IF selector[2] \notin nd.ids THEN "false" ELSE "true"
      [] selector[1] = "PseudoSelector" ->
            IF selector[2] = "NthChild"
            THEN nth_child_matches(SubSeq(selector, 3, Len(selector)),
                                   html_node.index_in_parent + 1)
            ELSE hover_matches(ending, is_last)
      [] is_combinator(selector) -> "false"

\* selector_group_matches (lines 240-357): the selectors of the group in
\* the order the iterator pushed them; the first "false" or "panic" ends
\* the loop
RECURSIVE selector_group_matches(_, _, _, _, _)
selector_group_matches(selectors, html_node, nd, ending, is_last) ==
    IF selectors = <<>>
    THEN "true"
    ELSE LET m == selector_matches(Head(selectors), html_node, nd, ending, is_last)
         IN  IF m = "true"
             THEN selector_group_matches(Tail(selectors), html_node, nd, ending, is_last)
             ELSE m

\* lines 39-47: the empty path, else the locals of the loop
MatchStart ==
    /\ pc = "match_start"
    /\ IF css_path = <<>>
       THEN /\ match_result' = Some(FALSE)
            /\ pc' = "match_done"
            /\ UNCHANGED <<current_node, direct_parent_has_to_match,
                           last_selector_matched, current_idx, last_reason>>
       ELSE /\ current_node' = Some(node_id)
            /\ direct_parent_has_to_match' = FALSE
            /\ last_selector_matched' = TRUE
            /\ current_idx' = Len(css_path)
            /\ last_reason' = "Children"
            /\ pc' = "match_loop"
            /\ UNCHANGED match_result
    /\ UNCHANGED <<css_path, node_id, expected_path_ending, content_group,
                   is_last_content_group, groups_taken, nonCssVars>>

\* one iteration of the loop (lines 48-85)
MatchGroup ==
    /\ pc = "match_loop"
    /\ LET it == CssGroupIterator_next(css_path, current_idx, last_reason)
       IN  /\ it.some
           /\ current_idx' = it.current_idx
           /\ last_reason' = it.reason
           /\ content_group' = it.group
           /\ groups_taken' = groups_taken + 1
           /\ is_last_content_group' =
                 CssGroupIterator_is_last_content_group(css_path, it.current_idx)
           /\ IF current_node = None
              THEN /\ match_result' = Some(it.group = <<Global>>)
                   /\ pc' = "match_done"
                   /\ UNCHANGED <<current_node, direct_parent_has_to_match,
                                  last_selector_matched>>
              ELSE LET cur_node_id == current_node[1]
                       current_selector_matches ==
                           selector_group_matches(it.group, html_node_tree[cur_node_id],
                                                  node_data[cur_node_id],
                                                  expected_path_ending,
                                                  is_last_content_group')
                   IN  CASE current_selector_matches = "panic" ->
                                /\ pc' = "match_panic"
                                /\ UNCHANGED <<match_result, current_node,
                                               direct_parent_has_to_match,
                                               last_selector_matched>>
                         [] current_selector_matches = "false"
                               /\ direct_parent_has_to_match ->
                                /\ match_result' = Some(FALSE)
                                /\ pc' = "match_done"
                                /\ UNCHANGED <<current_node, direct_parent_has_to_match,
                                               last_selector_matched>>
                         [] current_selector_matches = "true"
                               /\ ~last_selector_matched ->
                                /\ match_result' = Some(FALSE)
                                /\ pc' = "match_done"
                                /\ UNCHANGED <<current_node, direct_parent_has_to_match,
                                               last_selector_matched>>
                         [] OTHER ->
                                /\ last_selector_matched' =
                                      (current_selector_matches = "true")
                                /\ direct_parent_has_to_match' =
                                      (it.reason = "DirectChildren")
                                /\ current_node' = parent_id(cur_node_id)
                                /\ UNCHANGED <<pc, match_result>>
    /\ UNCHANGED <<css_path, node_id, expected_path_ending, nonCssVars>>

\* the iterator is exhausted: line 87
MatchFinish ==
    /\ pc = "match_loop"
    /\ ~CssGroupIterator_next(css_path, current_idx, last_reason).some
    /\ match_result' = Some(last_selector_matched)
    /\ pc' = "match_done"
    /\ UNCHANGED <<css_path, node_id, expected_path_ending, current_idx, last_reason,
                   current_node, direct_parent_has_to_match, last_selector_matched,
                   content_group, is_last_content_group, groups_taken, nonCssVars>>

MatchNext == MatchStart \/ MatchGroup \/ MatchFinish

\* nothing but the matcher runs
NonCssIdle == SplitIdle /\ PosIdle /\ AlignIdle /\ HitIdle /\ FontIdle /\ WidthIdle /\ CaretIdle /\ GlyphIdle /\ IterIdle /\ LineHeightIdle /\ ElideIdle /\ TrailingIdle

\* the matcher alone: matches_html_element on every path, node and ending
InitOfMatch == MatchInit /\ NonCssIdle

SpecMatch == InitOfMatch /\ [][MatchNext]_vars

(***************************************************************************)
(* Helpers of the matcher's properties.                                    *)
(***************************************************************************)
\* the positions of the combinators in the path
CombinatorPositions == {j \in DOMAIN css_path : is_combinator(css_path[j])}

\* whether node n satisfies every selector of a group of *, type and id
\* selectors
NodeSatisfies(group, n) ==
    \A i \in DOMAIN group :
        CASE group[i][1] = "Global" -> TRUE
          [] group[i][1] = "Type" -> node_data[n].node_type = group[i][2]
          [] group[i][1] = "Id" -> group[i][2] \in node_data[n].ids
          [] OTHER -> FALSE

\* whether a group holds *, type and id selectors only
IsPlainGroup(group) ==
    group # <<>> /\ \A i \in DOMAIN group : group[i][1] \in {"Global", "Type", "Id"}

\* the ancestors of a node, at any depth
RECURSIVE Ancestors(_)
Ancestors(n) ==
    IF parent_id(n) = None THEN {} ELSE {parent_id(n)[1]} \cup Ancestors(parent_id(n)[1])

\* the path is "A B" or "A > B" with plain groups A and B
IsTwoGroupPath ==
    /\ Cardinality(CombinatorPositions) = 1
    /\ LET c == CHOOSE j \in CombinatorPositions : TRUE
       IN  /\ IsPlainGroup(SubSeq(css_path, 1, c - 1))
           /\ IsPlainGroup(SubSeq(css_path, c + 1, Len(css_path)))

\* what "A B" and "A > B" mean
TwoGroupPathMatches ==
    LET c == CHOOSE j \in CombinatorPositions : TRUE
        A == SubSeq(css_path, 1, c - 1)
        B == SubSeq(css_path, c + 1, Len(css_path))
    IN  /\ NodeSatisfies(B, node_id)
        /\ IF css_path[c] = Children
           THEN \E a \in Ancestors(node_id) : NodeSatisfies(A, a)
           ELSE parent_id(node_id) # None /\ NodeSatisfies(A, parent_id(node_id)[1])

\* the 1-based sibling position of the node the path is matched against
k_of_node == html_node_tree[node_id].index_in_parent + 1

Hover == PseudoSelector(<<"Hover">>)

\* the group the iterator yielded last was matched against a node
GroupWasMatched ==
    /\ pc \in {"match_loop", "match_done", "match_panic"}
    /\ groups_taken >= 1
    /\ ~(pc = "match_done" /\ current_node = None)

\* C11: for a path of two groups A and B, "A B" matches a node iff the node
\* satisfies B and some ancestor of it, at any depth, satisfies A; "A > B"
\* matches iff the node satisfies B and its direct parent satisfies A.
C11_CombinatorSemantics ==
    (pc = "match_done" /\ IsTwoGroupPath) => match_result = Some(TwoGroupPathMatches)

\* C12: with expected_path_ending = Some(Hover), "body > #main:hover"
\* matches a node with id main whose parent is body and "body:hover > #main"
\* does not; a :hover selector matches iff its group is the rightmost one of
\* the path and the expected ending is Hover.
C12_HoverOnlyInRightmostGroup ==
    /\ ( /\ pc = "match_done"
         /\ expected_path_ending = Some(<<"Hover">>)
         /\ node_id \in {1, 5}
         /\ css_path = <<Type("body"), DirectChildren, Id("main"), Hover>> )
       => match_result = Some(TRUE)
    /\ ( /\ pc = "match_done"
         /\ expected_path_ending = Some(<<"Hover">>)
         /\ node_id \in {1, 5}
         /\ css_path = <<Type("body"), Hover, DirectChildren, Id("main")>> )
       => match_result = Some(FALSE)
    /\ ( /\ GroupWasMatched
         /\ \E i \in DOMAIN content_group : content_group[i] = Hover )
       => ( hover_matches(expected_path_ending, is_last_content_group) = "true"
              <=> (groups_taken = 1 /\ expected_path_ending = Some(<<"Hover">>)) )

\* C13: with k the 1-based sibling position, :nth-child(even) matches a
\* node iff k % 2 = 0 and :nth-child(odd) matches it iff k % 2 = 1.
C13_NthChildEvenOdd ==
    /\ (pc = "match_done" /\ css_path = <<PseudoSelector(<<"NthChild", "Even">>)>>)
       => match_result = Some(k_of_node % 2 = 0)
    /\ (pc = "match_done" /\ css_path = <<PseudoSelector(<<"NthChild", "Odd">>)>>)
       => match_result = Some(k_of_node % 2 = 1)

\* C14: :nth-child with Pattern { repeat, offset } matches a node iff
\* k >= offset and (k - offset) mod repeat = 0; a node with k < offset does
\* not match, and { repeat: 2, offset: 1 } matches the siblings 1, 3, 5 of
\* five.
C14_NthChildPattern ==
    \A repeat \in 1..3, offset \in 0..3 :
        ( /\ pc = "match_done"
          /\ css_path = <<PseudoSelector(<<"NthChild", "Pattern", repeat, offset>>)>> )
        => match_result = Some(k_of_node >= offset /\ (k_of_node - offset) % repeat = 0)

\* C15: the matcher never aborts: for every path (the empty one, one that
\* starts or ends with a combinator, one with a Pattern of repeat 0) and
\* every node it returns a boolean.
C15_MatcherNeverAborts ==
    /\ pc # "match_panic"
    /\ pc = "match_done" => match_result \in {Some(TRUE), Some(FALSE)}

(***************************************************************************)
(* InlineTextLayout::align_children_horizontal                             *)
(* (src/azul-text-layout/src/ui_solver.rs).  Lengths of this part are      *)
(* counted in half pixels, and the sizes are whole pixels, so that the     *)
(* product with the multiplier 0.5 is an integer as it is exact in f32.    *)
(***************************************************************************)
\* most lines of an InlineTextLayout given to the alignment
MaxLines == 2

\* StyleTextAlign
StyleTextAligns == {"Left", "Center", "Right"}

\* a line of the layout: the i-th line holds the words 2i .. 2i + 1 and
\* lies below the lines before it
InlineTextLineInputs(i) ==
    {InlineTextLine(2 * i, 2 * i + 1,
                    [origin |-> LogicalPosition(x, 8 * i), size |-> LogicalSize(w, 8)]) :
        x \in {0, 1, 4}, w \in {4, 12}}

\* InlineTextLayout { lines, content_size }
InlineTextLayouts ==
    UNION {{[lines |-> ls, content_size |-> LogicalSize(12, 8 * n)] :
              ls \in {f \in [1..n -> UNION {InlineTextLineInputs(i) : i \in 0..(n - 1)}] :
                         \A i \in 1..n : f[i] \in InlineTextLineInputs(i - 1)}} :
           n \in 0..MaxLines}

\* the receiver and the arguments of align_children_horizontal
AlignInit ==
    /\ pc = "align_start"
    /\ inline_text_layout \in InlineTextLayouts
    /\ old_inline_text_layout = inline_text_layout
    /\ parent_size \in {LogicalSize(w, 16) : w \in {8, 16}}
    /\ horizontal_alignment \in StyleTextAligns

\* a wrong multiplier: Center moves the line by the full width
calculate_horizontal_shift_multiplier_full(alignment) ==
    CASE alignment = "Left" -> None
      [] alignment = "Center" -> Some(2)
      [] alignment = "Right" -> Some(2)

\* calculate_horizontal_shift_multiplier (lines 93-100), the multiplier
\* counted in halves: 1 is 0.5 and 2 is 1.0
calculate_horizontal_shift_multiplier(alignment) ==
    CASE alignment = "Left" -> None
      [] alignment = "Center" -> Some(1)
      [] alignment = "Right" -> Some(2)

\* shift_multiplier * (parent_size.width - line.bounds.size.width), line 68
horizontal_shift(shift_multiplier, parent_width, line_width) ==
    (shift_multiplier * (parent_width - line_width)) \div 2

\* line 68: one line moved
shifted_line(line, shift_multiplier) ==
    [line EXCEPT !.bounds.origin.x =
        @ + horizontal_shift(shift_multiplier, parent_size.width, line.bounds.size.width)]

\* align_children_horizontal (lines 57-70)
AlignChildrenHorizontal ==
    /\ pc = "align_start"
    /\ LET multiplier == calculate_horizontal_shift_multiplier(horizontal_alignment)
       IN  IF multiplier = None
           THEN UNCHANGED inline_text_layout
           ELSE inline_text_layout' =
                   [inline_text_layout EXCEPT !.lines =
                       [i \in DOMAIN @ |-> shifted_line(@[i], multiplier[1])]]
    /\ pc' = "align_done"
    /\ UNCHANGED <<old_inline_text_layout, parent_size, horizontal_alignment, nonAlignVars>>

AlignNext == AlignChildrenHorizontal

\* nothing but the alignment runs
NonAlignIdle == SplitIdle /\ PosIdle /\ CssIdle /\ HitIdle /\ FontIdle /\ WidthIdle /\ CaretIdle /\ GlyphIdle /\ IterIdle /\ LineHeightIdle /\ ElideIdle /\ TrailingIdle

\* the alignment alone: align_children_horizontal on every layout
InitOfAlign == AlignInit /\ NonAlignIdle

SpecAlign == InitOfAlign /\ [][AlignNext]_vars

\* the multiplier the alignment stands for, in halves
MultiplierInHalves ==
    CASE horizontal_alignment = "Left" -> 0
      [] horizontal_alignment = "Center" -> 1
      [] horizontal_alignment = "Right" -> 2

\* C16: align_children_horizontal adds multiplier * (parent width - line
\* width) to the origin.x of every line, with multiplier 0 for Left, 0.5
\* for Center and 1.0 for Right, and leaves the rest alone: origin.y, size
\* and word range of each line, number and order of the lines,
\* content_size; with Left the layout is unchanged.
C16_AlignShiftsOnlyOriginX ==
    pc = "align_done" =>
        LET new == inline_text_layout
            old == old_inline_text_layout
        IN  /\ new.content_size = old.content_size
            /\ Len(new.lines) = Len(old.lines)
            /\ \A i \in DOMAIN old.lines :
                  /\ new.lines[i].word_start = old.lines[i].word_start
                  /\ new.lines[i].word_end = old.lines[i].word_end
                  /\ new.lines[i].bounds.size = old.lines[i].bounds.size
                  /\ new.lines[i].bounds.origin.y = old.lines[i].bounds.origin.y
                  /\ 2 * new.lines[i].bounds.origin.x =
                        2 * old.lines[i].bounds.origin.x
                          + MultiplierInHalves
                              * (parent_size.width - old.lines[i].bounds.size.width)
            /\ horizontal_alignment = "Left" => new = old

\* two lines of different widths have been centred, one of them wider than
\* the parent
C16_Witness ==
    /\ pc = "align_done"
    /\ horizontal_alignment = "Center"
    /\ Len(inline_text_layout.lines) = 2
    /\ parent_size.width = 8
    /\ old_inline_text_layout.lines[1].bounds.size.width = 4
    /\ old_inline_text_layout.lines[2].bounds.size.width = 12
    /\ inline_text_layout.lines[1].bounds.origin.x = old_inline_text_layout.lines[1].bounds.origin.x + 2
    /\ inline_text_layout.lines[2].bounds.origin.x = old_inline_text_layout.lines[2].bounds.origin.x - 2

(***************************************************************************)
(* InlineText::hit_test (src/azul-text-layout/src/words.rs): the glyphs    *)
(* under a point.  One action per line of the text, as the outer closure   *)
(* runs once per line; the four counters are its captured variables.       *)
(***************************************************************************)
\* most lines of an InlineText given to the hit test
MaxHitLines == 2
\* most words of one line of it
MaxHitWords == 2
\* width of a glyph and height of a line of the texts below, in pixels
GlyphExtent == 2

\* LogicalRect { origin, size }
LogicalRect(origin, size) == [origin |-> origin, size |-> size]

\* LogicalRect::hit_test (src/azul-text-layout/src/logical.rs, lines 80-90)
LogicalRect_hit_test(rect, other) ==
    LET dx_left_edge   == other.x - rect.origin.x
        dx_right_edge  == (rect.origin.x + rect.size.width) - other.x
        dy_top_edge    == other.y - rect.origin.y
        dy_bottom_edge == (rect.origin.y + rect.size.height) - other.y
    IN  IF dx_left_edge > 0 /\ dx_right_edge > 0 /\ dy_top_edge > 0 /\ dy_bottom_edge > 0
        THEN Some(LogicalPosition(dx_left_edge, dy_top_edge))
        ELSE None

\* the kinds of words of a line: a space, a word of one glyph, a word of
\* two glyphs
InlineWordKinds == {"Space", "Word1", "Word2"}

glyphs_of_kind(kind) == CASE kind = "Space" -> 0 [] kind = "Word1" -> 1 [] kind = "Word2" -> 2

\* the horizontal extent of a word of a line
extent_of_kind(kind) == IF kind = "Space" THEN GlyphExtent ELSE glyphs_of_kind(kind) * GlyphExtent

RECURSIVE extent_of_kinds(_)
extent_of_kinds(kinds) ==
    IF kinds = <<>> THEN 0
    ELSE extent_of_kind(Head(kinds)) + extent_of_kinds(Tail(kinds))

\* InlineGlyph: the j-th glyph of a word, every glyph with a codepoint
InlineGlyph(j) ==
    [bounds |-> LogicalRect(LogicalPosition((j - 1) * GlyphExtent, 0),
                            LogicalSize(GlyphExtent, GlyphExtent)),
     has_codepoint |-> TRUE]

\* InlineWord: Space, or Word(InlineTextContents { glyphs, bounds }) placed
\* at x on its line
InlineWord(kind, x) ==
    IF kind = "Space"
    THEN [has_text_content |-> FALSE]
    ELSE [has_text_content |-> TRUE,
          glyphs |-> [j \in 1..glyphs_of_kind(kind) |-> InlineGlyph(j)],
          bounds |-> LogicalRect(LogicalPosition(x, GlyphExtent),
                                 LogicalSize(extent_of_kind(kind), GlyphExtent))]

\* InlineLine { words, bounds }: line i (from 0) of the text, its words one
\* after the other; bounds.origin is the bottom left corner of the line
InlineLine(i, kinds) ==
    [words  |-> [w \in DOMAIN kinds |->
                    InlineWord(kinds[w], extent_of_kinds(SubSeq(kinds, 1, w - 1)))],
     bounds |-> LogicalRect(LogicalPosition(0, (i + 1) * GlyphExtent),
                            LogicalSize(extent_of_kinds(kinds), GlyphExtent))]

\* the word kinds of one line
LineKinds == UNION {[1..n -> InlineWordKinds] : n \in 1..MaxHitWords}

\* the widest line of a text
RECURSIVE widest_line(_)
widest_line(ls) ==
    IF ls = <<>> THEN 0 ELSE Max(ls[1].bounds.size.width, widest_line(Tail(ls)))

\* InlineText { lines, content_size, baseline_descender_px }
InlineTexts ==
    UNION {{LET ls == [i \in 1..n |-> InlineLine(i - 1, ks[i])]
            IN  [lines |-> ls,
                 content_size |-> LogicalSize(widest_line(ls), n * GlyphExtent),
                 baseline_descender_px |-> 0] :
              ks \in [1..n -> LineKinds]} :
           n \in 1..MaxHitLines}

\* the points tested: the centres of the cells a glyph can occupy, and one
\* column further right
HitPoints ==
    {LogicalPosition(GlyphExtent * cx + 1, GlyphExtent * cy + 1) :
        cx \in 0..(2 * MaxHitWords), cy \in 0..(MaxHitLines - 1)}

\* the receiver and the argument of hit_test
HitInit ==
    /\ pc = "hit_start"
    /\ inline_text \in InlineTexts
    /\ hit_position \in HitPoints
    /\ hit_relative_to_inline_text = None
    /\ global_char_hit = 0
    /\ global_word_hit = 0
    /\ global_glyph_hit = 0
    /\ global_text_content_hit = 0
    /\ line_index = 0
    /\ hits = <<>>

\* the counters as one record
counters ==
    [char |-> global_char_hit, word |-> global_word_hit, glyph |-> global_glyph_hit,
     text_content |-> global_text_content_hit]

\* lines 491-512: the InlineTextHit of one glyph; c holds the counters as
\* they are when the glyph is reached.  The field "glyph" is not in the
\* code: it names the glyph that was hit as <<line, word of the line, glyph
\* of the word>>, counted from 0.
InlineTextHit(c, line_start, text_content_start, line, at) ==
    [line_index_relative_to_text  |-> line,
     word_index_relative_to_text  |-> c.word,
     text_content_index_relative_to_text |-> c.text_content,
     glyph_index_relative_to_text |-> c.glyph,
     char_index_relative_to_text  |-> c.char,
     word_index_relative_to_line  |-> c.word - line_start.word,
     text_content_index_relative_to_line |-> c.text_content - line_start.text_content,
     glyph_index_relative_to_line |-> c.glyph - line_start.glyph,
     char_index_relative_to_line  |-> c.char - line_start.char,
     glyph_index_relative_to_word |-> c.glyph - text_content_start.glyph,
     char_index_relative_to_word  |-> c.char - text_content_start.char,
     glyph |-> at]

\* lines 481-523: the glyphs of a word whose bounds hold the point, from
\* the j-th on
RECURSIVE hit_test_glyphs(_, _, _, _, _, _, _, _, _)
hit_test_glyphs(text_content, j, hit_relative_to_text_content, descender_px, c, line_start, text_content_start, line, w) ==
    IF j > Len(text_content.glyphs)
    THEN [hits |-> <<>>, c |-> c]
    ELSE LET glyph == text_content.glyphs[j]
             glyph_bounds ==
                 [glyph.bounds EXCEPT !.origin.y =
                     text_content.bounds.size.height + descender_px
                         - glyph.bounds.size.height]
             glyph_result ==
                 IF LogicalRect_hit_test(glyph_bounds, hit_relative_to_text_content) # None
                 THEN <<InlineTextHit(c, line_start, text_content_start, line,
                                      <<line, w - 1, j - 1>>)>>
                 ELSE <<>>
             c2 == [c EXCEPT !.char = IF glyph.has_codepoint THEN @ + 1 ELSE @,
                             !.glyph = @ + 1]
             rest == hit_test_glyphs(text_content, j + 1, hit_relative_to_text_content,
                                     descender_px, c2, line_start, text_content_start,
                                     line, w)
         IN  [hits |-> glyph_result \o rest.hits, c |-> rest.c]

\* lines 470-525: word_result, and the counters after the glyphs
hit_test_word(word, hit_relative_to_line, descender_px, c, line_start, line, w) ==
    IF ~word.has_text_content
    THEN [hits |-> <<>>, c |-> c]
    ELSE LET text_content_bounds == [word.bounds EXCEPT !.origin.y = 0]
             hit == LogicalRect_hit_test(text_content_bounds, hit_relative_to_line)
         IN  IF hit = None
             THEN [hits |-> <<>>, c |-> c]
             ELSE hit_test_glyphs(word, 1, hit[1], descender_px, c, line_start, c, line, w)

\* lines 463-535: the words of a line whose bounds hold the point, from the
\* w-th on
RECURSIVE hit_test_words(_, _, _, _, _, _, _)
hit_test_words(line_words, w, hit_relative_to_line, descender_px, c, line_start, line) ==
    IF w > Len(line_words)
    THEN [hits |-> <<>>, c |-> c]
    ELSE LET word == line_words[w]
             word_result == hit_test_word(word, hit_relative_to_line, descender_px, c,
                                          line_start, line, w)
             c2 == [word_result.c EXCEPT
                       !.text_content = IF word.has_text_content THEN @ + 1 ELSE @,
                       !.word = @ + 1]
             rest == hit_test_words(line_words, w + 1, hit_relative_to_line,
                                    descender_px, c2, line_start, line)
         IN  [hits |-> word_result.hits \o rest.hits, c |-> rest.c]

\* lines 450-540: the outer closure, for one line
hit_test_line(line, idx, point, descender_px, c) ==
    LET line_bounds == [line.bounds EXCEPT !.origin.y = @ - line.bounds.size.height]
        hit == LogicalRect_hit_test(line_bounds, point)
    IN  IF hit = None
        THEN [hits |-> <<>>, c |-> c]
        ELSE hit_test_words(line.words, 1, hit[1], descender_px, c, c, idx)

\* lines 430-445: the point against the content bounds
HitTestStart ==
    /\ pc = "hit_start"
    /\ LET bounds == LogicalRect(LogicalPosition(0, 0), inline_text.content_size)
           hit == LogicalRect_hit_test(bounds, hit_position)
       IN  IF hit = None
           THEN /\ pc' = "hit_done"
                /\ UNCHANGED hit_relative_to_inline_text
           ELSE /\ pc' = "hit_loop"
                /\ hit_relative_to_inline_text' = hit
    /\ UNCHANGED <<inline_text, hit_position, global_char_hit, global_word_hit,
                   global_glyph_hit, global_text_content_hit, line_index, hits,
                   nonHitVars>>

\* lines 447-540: one line of the text
HitTestLine ==
    /\ pc = "hit_loop"
    /\ line_index < Len(inline_text.lines)
    /\ LET r == hit_test_line(inline_text.lines[line_index + 1], line_index,
                              hit_relative_to_inline_text[1],
                              inline_text.baseline_descender_px, counters)
       IN  /\ hits' = hits \o r.hits
           /\ global_char_hit' = r.c.char
           /\ global_word_hit' = r.c.word
           /\ global_glyph_hit' = r.c.glyph
           /\ global_text_content_hit' = r.c.text_content
    /\ line_index' = line_index + 1
    /\ UNCHANGED <<pc, inline_text, hit_position, hit_relative_to_inline_text, nonHitVars>>

\* line 541: the hits are collected
HitTestFinish ==
    /\ pc = "hit_loop"
    /\ line_index >= Len(inline_text.lines)
    /\ pc' = "hit_done"
    /\ UNCHANGED <<inline_text, hit_position, hit_relative_to_inline_text, global_char_hit,
                   global_word_hit, global_glyph_hit, global_text_content_hit,
                   line_index, hits, nonHitVars>>

HitNext == HitTestStart \/ HitTestLine \/ HitTestFinish

\* nothing but the hit test runs
NonHitIdle == SplitIdle /\ PosIdle /\ CssIdle /\ AlignIdle /\ FontIdle /\ WidthIdle /\ CaretIdle /\ GlyphIdle /\ IterIdle /\ LineHeightIdle /\ ElideIdle /\ TrailingIdle

\* the hit test alone: hit_test on every text and point
InitOfHit == HitInit /\ NonHitIdle

SpecHit == InitOfHit /\ [][HitNext]_vars

\* the number of glyphs of the words 1 .. w of a line
RECURSIVE GlyphsOfWords(_, _)
GlyphsOfWords(line_words, w) ==
    IF w = 0 THEN 0
    ELSE GlyphsOfWords(line_words, w - 1)
           + (IF line_words[w].has_text_content THEN Len(line_words[w].glyphs) ELSE 0)

\* the number of words, and of glyphs, of the lines 1 .. l of the text
RECURSIVE WordsOfLines(_)
WordsOfLines(l) ==
    IF l = 0 THEN 0 ELSE WordsOfLines(l - 1) + Len(inline_text.lines[l].words)

RECURSIVE GlyphsOfLines(_)
GlyphsOfLines(l) ==
    IF l = 0 THEN 0
    ELSE GlyphsOfLines(l - 1)
           + GlyphsOfWords(inline_text.lines[l].words, Len(inline_text.lines[l].words))

\* C17: every InlineTextHit carries correct ordinals:
\* word_index_relative_to_text and glyph_index_relative_to_text count the
\* words, the glyphs, that precede the hit one in the whole text, whether or
\* not they hold the point, and glyph_index_relative_to_line counts the
\* glyphs that precede the hit glyph in its line.
C17_HitOrdinals ==
    pc = "hit_done" =>
        \A h \in DOMAIN hits :
            LET l == hits[h].glyph[1]
                w == hits[h].glyph[2]
                g == hits[h].glyph[3]
                glyphs_before_in_line == GlyphsOfWords(inline_text.lines[l + 1].words, w) + g
            IN  /\ hits[h].word_index_relative_to_text = WordsOfLines(l) + w
                /\ hits[h].glyph_index_relative_to_text = GlyphsOfLines(l) + glyphs_before_in_line
                /\ hits[h].glyph_index_relative_to_line = glyphs_before_in_line

(***************************************************************************)
(* ParsedFont::from_bytes, in its two copies: src/src/text_shaping.rs and  *)
(* src/azul-text-layout/src/text_shaping.rs.  A face is the set of tables  *)
(* it holds; a table that is present is well formed.  One action per       *)
(* statement that can end the function.                                    *)
(***************************************************************************)
\* the tables from_bytes and the allsorts Font read
FontTables == {"head", "maxp", "loca", "glyf", "hmtx", "hhea", "cmap", "OS/2", "GSUB", "GPOS"}

\* the two copies of from_bytes
FontCrates == {"src", "azul-text-layout"}

\* the statements of from_bytes, in order: the tables fetched with
\* provider.table_data(tag).ok()??, then get_font_metrics, Font::new, the
\* two caches and the cmap subtable.  The copy of azul-text-layout also
\* fetches hhea (lines 369-370).
from_bytes_statements(crate) ==
    IF crate = "src"
    THEN <<"head", "maxp", "loca", "glyf", "hmtx",
           "get_font_metrics", "Font::new", "GSUB", "GPOS", "cmap_subtable">>
    ELSE <<"head", "maxp", "loca", "glyf", "hmtx", "hhea",
           "get_font_metrics", "Font::new", "GSUB", "GPOS", "cmap_subtable">>

\* the face given to from_bytes, and which copy of it runs
FontInit ==
    /\ pc = "font_run"
    /\ font_tables \in SUBSET FontTables
    /\ font_crate \in FontCrates
    /\ font_statement = 1
    /\ from_bytes_result = "running"

\* the statement from_bytes is at
current_statement == from_bytes_statements(font_crate)[font_statement]

\* allsorts::font::Font::new(provider): a Font holds the hhea table, the
\* maxp table and the data of a cmap subtable (font.hhea_table in line 31,
\* cmap_subtable_data() in line 242), so without one of them there is no
\* Font, whether the call says Err or Ok(None)
Font_new(tables) ==
    IF {"cmap", "maxp", "hhea"} \subseteq tables THEN {"Ok(Some)"} ELSE {"Err", "Ok(None)"}

\* get_font_metrics of src/src/text_shaping.rs (lines 22-34): every step is
\* unwrapped
get_font_metrics_unwrapping(tables) ==
    IF /\ Font_new(tables) = {"Ok(Some)"}
       /\ "head" \in tables
       /\ "OS/2" \in tables
    THEN "FontMetrics"
    ELSE "panic"

\* get_font_metrics of src/azul-text-layout/src/text_shaping.rs (lines
\* 21-130): FontMetrics::default() where a step fails
get_font_metrics_defaulting(tables) == "FontMetrics"

get_font_metrics(crate, tables) ==
    IF crate = "src"
    THEN get_font_metrics_unwrapping(tables)
    ELSE get_font_metrics_defaulting(tables)

\* the function returns None
ReturnNone ==
    /\ from_bytes_result' = "None"
    /\ pc' = "font_done"
    /\ UNCHANGED font_statement

\* the function goes on to its next statement
NextStatement ==
    /\ font_statement' = font_statement + 1
    /\ UNCHANGED <<pc, from_bytes_result>>

\* provider.table_data(tag).ok()?? (lines 177-200, and 369 of the copy)
FromBytesTableData ==
    /\ pc = "font_run"
    /\ current_statement \in {"head", "maxp", "loca", "glyf", "hmtx", "hhea"}
    /\ IF current_statement \in font_tables THEN NextStatement ELSE ReturnNone
    /\ UNCHANGED <<font_tables, font_crate, nonFontVars>>

\* let font_metrics = get_font_metrics(font_bytes, font_index) (line 202)
FromBytesGetFontMetrics ==
    /\ pc = "font_run"
    /\ current_statement = "get_font_metrics"
    /\ IF get_font_metrics(font_crate, font_tables) = "panic"
       THEN /\ from_bytes_result' = "panic"
            /\ pc' = "font_panic"
            /\ UNCHANGED font_statement
       ELSE NextStatement
    /\ UNCHANGED <<font_tables, font_crate, nonFontVars>>

\* allsorts::font::Font::new(provider).ok()?? (line 234)
FromBytesFontNew ==
    /\ pc = "font_run"
    /\ current_statement = "Font::new"
    /\ \E outcome \in Font_new(font_tables) :
          IF outcome = "Ok(Some)" THEN NextStatement ELSE ReturnNone
    /\ UNCHANGED <<font_tables, font_crate, nonFontVars>>

\* font_data_impl.gsub_cache().ok()?? and gpos_cache().ok()?? (lines 237-238)
FromBytesCache ==
    /\ pc = "font_run"
    /\ current_statement \in {"GSUB", "GPOS"}
    /\ IF current_statement \in font_tables THEN NextStatement ELSE ReturnNone
    /\ UNCHANGED <<font_tables, font_crate, nonFontVars>>

\* the cmap subtable of the Font is read and the font returned (lines
\* 242-263)
FromBytesFinish ==
    /\ pc = "font_run"
    /\ current_statement = "cmap_subtable"
    /\ from_bytes_result' = "Some"
    /\ pc' = "font_done"
    /\ UNCHANGED <<font_statement, font_tables, font_crate, nonFontVars>>

FontNext ==
    \/ FromBytesTableData
    \/ FromBytesGetFontMetrics
    \/ FromBytesFontNew
    \/ FromBytesCache
    \/ FromBytesFinish

\* nothing but from_bytes runs
NonFontIdle == SplitIdle /\ PosIdle /\ CssIdle /\ AlignIdle /\ HitIdle /\ WidthIdle /\ CaretIdle /\ GlyphIdle /\ IterIdle /\ LineHeightIdle /\ ElideIdle /\ TrailingIdle

\* from_bytes alone, on every face
InitOfFont == FontInit /\ NonFontIdle

SpecFont == InitOfFont /\ [][FontNext]_vars

\* the tables the specification calls mandatory
MandatoryTables == {"head", "maxp", "hmtx", "hhea", "cmap", "GSUB", "GPOS"}

\* C18: from_bytes returns None, and neither panics nor returns a font,
\* whenever one of the tables head, maxp, hmtx, hhea, cmap, GSUB, GPOS is
\* missing from the face.
C18_MissingTableGivesNone ==
    (pc \in {"font_done", "font_panic"} /\ ~(MandatoryTables \subseteq font_tables))
        => from_bytes_result = "None"

(***************************************************************************)
(* ShapedTextBufferUnsized::get_word_visual_width_unscaled                 *)
(* (src/src/text_shaping.rs, src/azul-text-layout/src/text_shaping.rs):    *)
(* the sum of `get_x_advance_total_unscaled() as usize` over the glyphs.   *)
(* A usize is 64 bits wide and is kept as four limbs of 16 bits, the most  *)
(* significant first.  One action per glyph added by sum().                *)
(***************************************************************************)
\* most glyphs of a shaped word given to the sum
MaxGlyphs == 3
\* radix of a limb: 2^16
LimbRadix == 65536

\* Advance { advance_x: u16, kerning: i16 }
Advances == [advance_x : {0, 3, 65535}, kerning : {-32768, -4, 0, 2}]

\* ShapedTextBufferUnsized::infos
GlyphInfoLists == UNION {[1..n -> Advances] : n \in 0..MaxGlyphs}

\* Advance::get_x_advance_total_unscaled (words.rs, lines 725-727), an i32
get_x_advance_total_unscaled(advance) == advance.advance_x + advance.kerning

\* `v as usize` for an i32 v >= -2^16: a negative value is sign-extended,
\* that is 2^64 + v
as_usize(v) ==
    IF v >= 0
    THEN <<0, 0, v \div LimbRadix, v % LimbRadix>>
    ELSE <<LimbRadix - 1, LimbRadix - 1, LimbRadix - 1, LimbRadix + v>>

\* a + b on usize: the sum modulo 2^64 and whether it overflowed
usize_add(a, b) ==
    LET s4 == a[4] + b[4]
        s3 == a[3] + b[3] + s4 \div LimbRadix
        s2 == a[2] + b[2] + s3 \div LimbRadix
        s1 == a[1] + b[1] + s2 \div LimbRadix
    IN  [value |-> <<s1 % LimbRadix, s2 % LimbRadix, s3 % LimbRadix, s4 % LimbRadix>>,
         overflow |-> s1 \div LimbRadix > 0]

\* the shaped word, and whether the build checks arithmetic overflow (a
\* debug build does, a release build does not)
WidthInit ==
    /\ pc = "width_sum"
    /\ infos \in GlyphInfoLists
    /\ overflow_checks \in BOOLEAN
    /\ info_idx = 0
    /\ visual_width_unscaled = <<0, 0, 0, 0>>

\* sum(): one glyph added (lines 319-322); an overflow panics in a build
\* with overflow checks and wraps in one without
WidthAdd ==
    /\ pc = "width_sum"
    /\ info_idx < Len(infos)
    /\ LET s == infos[info_idx + 1]
           r == usize_add(visual_width_unscaled, as_usize(get_x_advance_total_unscaled(s)))
       IN  IF r.overflow /\ overflow_checks
           THEN /\ pc' = "width_panic"
                /\ UNCHANGED <<visual_width_unscaled, info_idx>>
           ELSE /\ visual_width_unscaled' = r.value
                /\ info_idx' = info_idx + 1
                /\ UNCHANGED pc
    /\ UNCHANGED <<infos, overflow_checks, nonWidthVars>>

\* the sum is returned
WidthFinish ==
    /\ pc = "width_sum"
    /\ info_idx >= Len(infos)
    /\ pc' = "width_done"
    /\ UNCHANGED <<infos, overflow_checks, info_idx, visual_width_unscaled, nonWidthVars>>

WidthNext == WidthAdd \/ WidthFinish

\* nothing but the sum runs
NonWidthIdle == SplitIdle /\ PosIdle /\ CssIdle /\ AlignIdle /\ HitIdle /\ FontIdle /\ CaretIdle /\ GlyphIdle /\ IterIdle /\ LineHeightIdle /\ ElideIdle /\ TrailingIdle

\* the sum alone, on every shaped word
InitOfWidth == WidthInit /\ NonWidthIdle

SpecWidth == InitOfWidth /\ [][WidthNext]_vars

\* the sum of advance_x + kerning over the glyphs 1 .. n, in the integers
RECURSIVE AdvanceSum(_)
AdvanceSum(n) ==
    IF n = 0 THEN 0 ELSE AdvanceSum(n - 1) + infos[n].advance_x + infos[n].kerning

\* a value of 0 .. 2^31 - 1 as a usize
UsizeOfNat(v) == <<0, 0, v \div LimbRadix, v % LimbRadix>>

\* C19: word_width is the sum over the glyphs of advance_x + kerning, and
\* the arithmetic never wraps: a glyph with advance_x + kerning < 0 does
\* not make the sum huge, and overflow saturates (a sum below zero is 0).
C19_WordWidthIsSumNoWrap ==
    /\ pc # "width_panic"
    /\ pc = "width_done" => visual_width_unscaled = UsizeOfNat(Max(0, AdvanceSum(Len(infos))))

\* C20: split_text_into_words never emits a Word token with an empty range
\* (start = end): none for a text that begins with a space or a newline,
\* and the token list of the empty string is empty.
C20_NoEmptyWordToken ==
    pc = "split_done" =>
        /\ \A k \in DOMAIN words :
              words[k].word_type = "Word" => words[k].index.start < words[k].index.end
        /\ text = <<>> => words = <<>>

(***************************************************************************)
(* LineCaretIntersection::new on its own: the caller hands it the caret,   *)
(* the width of the word to place, the height of a line and the optional   *)
(* width of the line; the intersection it returns is kept.                 *)
(***************************************************************************)
MaxCoord == 3

\* the arguments of one call
CaretArgs ==
    [current_x : 0..MaxCoord, word_width : 0..(MaxCoord + 1), current_y : 0..1,
     line_height : 1..2, max_width : {None} \cup {Some(m) : m \in 0..MaxCoord}]

CaretInit ==
    /\ pc = "caret_call"
    /\ caret_args \in CaretArgs
    /\ caret_outcome = None

\* let intersection = LineCaretIntersection::new(..)
CaretNew ==
    /\ pc = "caret_call"
    /\ caret_outcome' = Some(LineCaretIntersection_new(caret_args.current_x,
            caret_args.word_width, caret_args.current_y, caret_args.line_height,
            caret_args.max_width))
    /\ pc' = "caret_done"
    /\ UNCHANGED <<caret_args, nonCaretVars>>

CaretNext == CaretNew

NonCaretIdle == SplitIdle /\ PosIdle /\ CssIdle /\ AlignIdle /\ HitIdle /\ FontIdle /\ WidthIdle /\ GlyphIdle /\ IterIdle /\ LineHeightIdle /\ ElideIdle /\ TrailingIdle

InitOfCaret == CaretInit /\ NonCaretIdle

SpecCaret == InitOfCaret /\ [][CaretNext]_vars

\* C21: LineCaretIntersection::new answers NoLineBreak with the caret moved
\* right by the word's width when there is no max_width, and also when the
\* caret is at x = 0 and the word alone is wider than max_width; otherwise it
\* answers LineBreak to (0, current_y + line_height) when the word would end
\* past max_width, and NoLineBreak with the caret moved right when it fits.
C21_CaretIntersectionCases ==
    pc = "caret_done" =>
        LET a == caret_args
            r == caret_outcome[1]
            stays == /\ r.kind = "NoLineBreak"
                     /\ r.new_x = a.current_x + a.word_width
                     /\ r.new_y = a.current_y
            breaks == /\ r.kind = "LineBreak"
                      /\ r.new_x = 0
                      /\ r.new_y = a.current_y + a.line_height
        IN  /\ a.max_width = None => stays
            /\ a.max_width # None =>
                LET m == a.max_width[1]
                    overwide == a.current_x = 0 /\ a.word_width > m
                IN  /\ overwide => stays
                    /\ (~overwide /\ a.current_x + a.word_width > m) => breaks
                    /\ (~overwide /\ a.current_x + a.word_width <= m) => stays

\* a word that does not fit behind a caret inside the line has broken the line
C21_Witness ==
    /\ pc = "caret_done"
    /\ caret_args.max_width # None
    /\ caret_args.current_x > 0
    /\ caret_args.current_x + caret_args.word_width > caret_args.max_width[1]
    /\ caret_args.current_y = 1
    /\ caret_outcome[1].kind = "LineBreak"

(***************************************************************************)
(* position_words, the Space arm (lines 289-334), under SpecPos.           *)
(***************************************************************************)
\* the step is the Space arm on a token that is not the last one, and it
\* pushed a line
SpaceBreaksLine ==
    /\ pc = "pos_loop"
    /\ word_idx < Len(words_items)
    /\ words_items[word_idx + 1] = "Space"
    /\ word_idx # last_word_idx
    /\ Len(line_breaks') = Len(line_breaks) + 1

\* C22: when a Space token that is not the last token breaks the line, the
\* break happens before the space: the flushed line ends at the token before
\* the Space, the new line starts at the Space's index, and the Space's
\* WordPosition is recorded at the new caret (x = 0, y = the previous caret y
\* + font_size_px + line_height_px).
C22_SpaceBreakBeforeSpace ==
    [][SpaceBreaksLine =>
        /\ line_breaks'[Len(line_breaks')].word_end = word_idx - 1
        /\ last_line_start_idx' = word_idx
        /\ word_positions'[Len(word_positions')].position
              = LogicalPosition(0, line_caret_y + font_size_px + line_height_px)]_vars

(***************************************************************************)
(* get_inline_text (src/azul-text-layout/src/words.rs, src/src/words.rs):  *)
(* the loop that lays out the glyphs of one shaped word.  Each iteration   *)
(* gives the glyph an origin relative to the word, pushes it onto          *)
(* all_glyphs_in_this_word and moves x_pos_in_word_px.  Indexing the Vec   *)
(* past its end aborts the function.                                       *)
(***************************************************************************)
\* most glyphs in a shaped word
MaxWordGlyphs == 3

\* Placement: None, Distance, and the three placements that name an earlier
\* glyph of the word by its index
Placements ==
    {<<"None">>, <<"Distance", 2, 2>>}
        \cup {<<kind, index>> : kind \in {"MarkAnchor", "MarkOverprint", "CursiveAnchor"},
                                index \in 0..(MaxWordGlyphs - 1)}

\* the placement takes its origin from another glyph
is_attachment(placement) ==
    placement[1] \in {"MarkAnchor", "MarkOverprint", "CursiveAnchor"}

\* GlyphInfo: the placement and the unscaled Advance of a glyph
WordGlyphInfos ==
    [placement : Placements,
     size : {[advance_x |-> 0, kerning |-> 0, size_x |-> 2, size_y |-> 2],
             [advance_x |-> 2, kerning |-> 0, size_x |-> 2, size_y |-> 2],
             [advance_x |-> 2, kerning |-> 2, size_x |-> 2, size_y |-> 2]}]

\* shaped_word.glyph_infos
WordGlyphInfoLists == UNION {[1..n -> WordGlyphInfos] : n \in 0..MaxWordGlyphs}

GlyphInit ==
    /\ pc = "glyph_loop"
    /\ word_glyph_infos \in WordGlyphInfoLists
    /\ glyph_options \in [letter_spacing_px : {0, 1}, font_size_px : {4},
                          font_metrics_units_per_em : {2}]
    /\ all_glyphs_in_this_word = <<>>
    /\ x_pos_in_word_px = 0
    /\ glyph_info_idx = 0

\* the match on glyph_info.placement: (letter_spacing_for_glyph, origin)
glyph_spacing_and_origin(placement, x_pos, glyphs, options) ==
    IF placement[1] = "None"
    THEN [letter_spacing_for_glyph |-> options.letter_spacing_px,
          origin |-> LogicalPosition(x_pos, 0)]
    ELSE IF placement[1] = "Distance"
    THEN LET displacement ==
                 LogicalPosition(scale_px(placement[2], options.font_metrics_units_per_em,
                                          options.font_size_px),
                                 scale_px(placement[3], options.font_metrics_units_per_em,
                                          options.font_size_px))
         IN  [letter_spacing_for_glyph |-> options.letter_spacing_px,
              origin |-> LogicalPosition(x_pos + displacement.x, displacement.y)]
    ELSE LET anchor == glyphs[placement[2] + 1]
         IN  [letter_spacing_for_glyph |-> 0, origin |-> anchor.bounds.origin]

\* one iteration of `for glyph_info in shaped_word.glyph_infos.iter()`
GlyphLoop ==
    /\ pc = "glyph_loop"
    /\ glyph_info_idx < Len(word_glyph_infos)
    /\ LET glyph_info == word_glyph_infos[glyph_info_idx + 1]
           upe == glyph_options.font_metrics_units_per_em
           fs == glyph_options.font_size_px
       IN  IF /\ is_attachment(glyph_info.placement)
              /\ glyph_info.placement[2] >= Len(all_glyphs_in_this_word)
           THEN \* all_glyphs_in_this_word[index]: index out of bounds
                /\ pc' = "glyph_panic"
                /\ UNCHANGED <<all_glyphs_in_this_word, x_pos_in_word_px, glyph_info_idx>>
           ELSE LET placed == glyph_spacing_and_origin(glyph_info.placement,
                                  x_pos_in_word_px, all_glyphs_in_this_word, glyph_options)
                    glyph_advance_x == scale_px(glyph_info.size.advance_x, upe, fs)
                    kerning_x == scale_px(glyph_info.size.kerning, upe, fs)
                    inline_char ==
                        [bounds |-> LogicalRect(placed.origin,
                              LogicalSize(scale_px(glyph_info.size.size_x, upe, fs),
                                          scale_px(glyph_info.size.size_y, upe, fs)))]
                IN  /\ x_pos_in_word_px' = x_pos_in_word_px + glyph_advance_x + kerning_x
                                              + placed.letter_spacing_for_glyph
                    /\ all_glyphs_in_this_word' = Append(all_glyphs_in_this_word, inline_char)
                    /\ glyph_info_idx' = glyph_info_idx + 1
                    /\ pc' = pc
    /\ UNCHANGED <<word_glyph_infos, glyph_options, nonGlyphVars>>

\* the loop is over: the glyphs become the InlineWord::Word
GlyphFinish ==
    /\ pc = "glyph_loop"
    /\ glyph_info_idx = Len(word_glyph_infos)
    /\ pc' = "glyph_done"
    /\ UNCHANGED <<glyphVars, nonGlyphVars>>

GlyphNext == GlyphLoop \/ GlyphFinish

NonGlyphIdle == SplitIdle /\ PosIdle /\ CssIdle /\ AlignIdle /\ HitIdle /\ FontIdle /\ WidthIdle /\ CaretIdle /\ IterIdle /\ LineHeightIdle /\ ElideIdle /\ TrailingIdle

InitOfGlyph == GlyphInit /\ NonGlyphIdle

SpecGlyph == InitOfGlyph /\ [][GlyphNext]_vars

\* the loop is at a glyph whose placement names another glyph; `earlier`
\* tells whether the glyph named comes before it in the word
AtAttachment(earlier) ==
    /\ pc = "glyph_loop"
    /\ glyph_info_idx < Len(word_glyph_infos)
    /\ is_attachment(word_glyph_infos[glyph_info_idx + 1].placement)
    /\ (word_glyph_infos[glyph_info_idx + 1].placement[2] < glyph_info_idx) = earlier

\* x_pos_in_word_px after a glyph placed as Placement::None
AdvancedAsNone ==
    LET glyph_info == word_glyph_infos[glyph_info_idx + 1]
    IN  x_pos_in_word_px
          + scale_px(glyph_info.size.advance_x + glyph_info.size.kerning,
                     glyph_options.font_metrics_units_per_em, glyph_options.font_size_px)
          + glyph_options.letter_spacing_px

\* C23: get_inline_text does not fail on a glyph at position i whose
\* MarkAnchor, MarkOverprint or CursiveAnchor placement names a glyph index
\* >= i: the glyph is laid out as if its placement were Placement::None, at
\* the caret of the word, and the loop goes on.
C23_AttachmentIndexValidated ==
    [][AtAttachment(FALSE) =>
        /\ pc' = "glyph_loop"
        /\ Len(all_glyphs_in_this_word') = glyph_info_idx + 1
        /\ all_glyphs_in_this_word'[glyph_info_idx + 1].bounds.origin
              = LogicalPosition(x_pos_in_word_px, 0)
        /\ x_pos_in_word_px' = AdvancedAsNone]_vars

\* C26: a glyph whose MarkAnchor, MarkOverprint or CursiveAnchor placement
\* names an earlier glyph gets the origin of that glyph and leaves
\* x_pos_in_word_px where it was: neither its advance, its kerning nor the
\* letter spacing is added.
C26_AttachmentDoesNotAdvance ==
    [][AtAttachment(TRUE) =>
        /\ all_glyphs_in_this_word'[glyph_info_idx + 1].bounds.origin
              = all_glyphs_in_this_word[word_glyph_infos[glyph_info_idx + 1].placement[2] + 1]
                    .bounds.origin
        /\ x_pos_in_word_px' = x_pos_in_word_px]_vars

(***************************************************************************)
(* matches_html_element and the node the path is asked about, under        *)
(* SpecMatch.                                                              *)
(***************************************************************************)
\* the first group CssGroupIterator yields for css_path: its rightmost one
RightmostGroup == CssGroupIterator_next(css_path, Len(css_path), "Children")

\* selector_group_matches on the rightmost group and the queried node itself
NodeSatisfiesRightmostGroup ==
    /\ RightmostGroup.some
    /\ selector_group_matches(RightmostGroup.group, html_node_tree[node_id],
                              node_data[node_id], expected_path_ending,
                              CssGroupIterator_is_last_content_group(css_path,
                                  RightmostGroup.current_idx)) = "true"

\* C24: matches_html_element returns true only if the queried node itself
\* satisfies the rightmost content group of the path, the root node (which
\* has no parent) and paths with more groups than the node has ancestors
\* included.
C24_TrueOnlyIfNodeSatisfiesRightmost ==
    (pc = "match_done" /\ match_result = Some(TRUE)) => NodeSatisfiesRightmostGroup

(***************************************************************************)
(* CssGroupIterator on its own (style.rs, lines 116-178): next() is called *)
(* until it returns None and every item it yields is kept.                 *)
(***************************************************************************)
\* CssGroupIterator::new
IterInit ==
    /\ pc = "iter_loop"
    /\ iterator_css_path \in CssPaths
    /\ iterator_current_idx = Len(iterator_css_path)
    /\ iterator_last_reason = "Children"
    /\ yielded = <<>>

\* next() returns Some((current_path, self.last_reason))
IterSome ==
    /\ pc = "iter_loop"
    /\ LET it == CssGroupIterator_next(iterator_css_path, iterator_current_idx,
                                       iterator_last_reason)
       IN  /\ it.some
           /\ iterator_current_idx' = it.current_idx
           /\ iterator_last_reason' = it.reason
           /\ yielded' = Append(yielded, [group |-> it.group, reason |-> it.reason])
    /\ UNCHANGED <<pc, iterator_css_path, nonIterVars>>

\* next() returns None
IterNone ==
    /\ pc = "iter_loop"
    /\ ~CssGroupIterator_next(iterator_css_path, iterator_current_idx,
                              iterator_last_reason).some
    /\ pc' = "iter_done"
    /\ UNCHANGED <<iterVars, nonIterVars>>

IterNext == IterSome \/ IterNone

NonIterIdle == SplitIdle /\ PosIdle /\ CssIdle /\ AlignIdle /\ HitIdle /\ FontIdle /\ WidthIdle /\ CaretIdle /\ GlyphIdle /\ LineHeightIdle /\ ElideIdle /\ TrailingIdle

InitOfIter == IterInit /\ NonIterIdle

SpecIter == InitOfIter /\ [][IterNext]_vars

\* the positions of the combinators of a path
CombinatorsOf(path) == {j \in DOMAIN path : is_combinator(path[j])}

\* the runs of simple selectors of a path, from right to left, each with the
\* combinator to its left; the run left of every combinator has none
RECURSIVE RunsRightToLeft(_)
RunsRightToLeft(path) ==
    IF CombinatorsOf(path) = {}
    THEN <<[run |-> path, left |-> None]>>
    ELSE LET c == CHOOSE j \in CombinatorsOf(path) : \A k \in CombinatorsOf(path) : k <= j
         IN  <<[run |-> SubSeq(path, c + 1, Len(path)), left |-> Some(path[c][1])]>>
                 \o RunsRightToLeft(SubSeq(path, 1, c - 1))

\* the content groups of a path, from right to left; the empty path has none
ContentGroupsRightToLeft(path) == IF path = <<>> THEN <<>> ELSE RunsRightToLeft(path)

\* the combinator the iterator has seen last when it reaches the leftmost
\* group: the leftmost combinator of the path, Children when there is none
LastSeenAtLeftmost(path) ==
    IF CombinatorsOf(path) = {}
    THEN "Children"
    ELSE path[CHOOSE j \in CombinatorsOf(path) : \A k \in CombinatorsOf(path) : j <= k][1]

\* a group holds exactly the selectors of a run, in whatever order
HoldsExactly(group, run) ==
    /\ Len(group) = Len(run)
    /\ \A s \in CssPathSelectors :
          Cardinality({i \in DOMAIN group : group[i] = s})
              = Cardinality({i \in DOMAIN run : run[i] = s})

\* what the iterator has yielded is the content groups of the path, right to
\* left, each with the combinator to its left, the leftmost with the
\* combinator seen last
YieldsContentGroups ==
    LET groups == ContentGroupsRightToLeft(iterator_css_path)
    IN  /\ Len(yielded) = Len(groups)
        /\ \A n \in DOMAIN yielded :
              /\ HoldsExactly(yielded[n].group, groups[n].run)
              /\ \A i \in DOMAIN yielded[n].group : ~is_combinator(yielded[n].group[i])
              /\ yielded[n].reason =
                    IF groups[n].left = None THEN LastSeenAtLeftmost(iterator_css_path)
                    ELSE groups[n].left[1]

MaxMetric == 4

\* the metrics of a ShapedWords
ShapedWordsMetrics ==
    [font_metrics_units_per_em : {1, 2},
     font_metrics_ascender : {m \in 0..MaxMetric : m % 2 = 0},
     font_metrics_descender : {0, -2},
     font_metrics_line_gap : {0, 2}]

LineHeightInit ==
    /\ pc = "line_height_call"
    /\ line_height_self \in ShapedWordsMetrics
    /\ line_height_target \in {0, 1, 2, 4}
    /\ line_height_returned = None

\* ShapedWords::get_line_height: `*` binds tighter than `+` and `-`, so
\* target_font_size multiplies the line gap term only
get_line_height(self, target_font_size) ==
    self.font_metrics_ascender \div self.font_metrics_units_per_em
        - self.font_metrics_descender \div self.font_metrics_units_per_em
        + (self.font_metrics_line_gap \div self.font_metrics_units_per_em)
            * target_font_size

\* shaped_words.get_line_height(target_font_size)
LineHeightCall ==
    /\ pc = "line_height_call"
    /\ line_height_returned' = Some(get_line_height(line_height_self, line_height_target))
    /\ pc' = "line_height_done"
    /\ UNCHANGED <<line_height_self, line_height_target, nonLineHeightVars>>

LineHeightNext == LineHeightCall

NonLineHeightIdle == SplitIdle /\ PosIdle /\ CssIdle /\ AlignIdle /\ HitIdle /\ FontIdle /\ WidthIdle /\ CaretIdle /\ GlyphIdle /\ IterIdle /\ ElideIdle /\ TrailingIdle

InitOfLineHeight == LineHeightInit /\ NonLineHeightIdle

SpecLineHeight == InitOfLineHeight /\ [][LineHeightNext]_vars

\* C27: get_line_height(s) is (ascender - descender + line_gap) /
\* units_per_em * s: all three metrics are scaled by the target font size.
C27_LineHeightScalesAllMetrics ==
    pc = "line_height_done" =>
        line_height_returned[1] * line_height_self.font_metrics_units_per_em
            = (line_height_self.font_metrics_ascender
                 - line_height_self.font_metrics_descender
                 + line_height_self.font_metrics_line_gap) * line_height_target

(***************************************************************************)
(* split_text_into_words called twice: on a text that does not end in a    *)
(* newline, and then on the same text with "\n" appended.  The token list  *)
(* of the first call is kept while the second call runs.                   *)
(***************************************************************************)
\* split_text_into_words(T), T not ending in '\n'
ElideInit ==
    /\ SplitInit
    /\ IF text = <<>> THEN TRUE ELSE text[Len(text)] # "\n"
    /\ PosIdle
    /\ RestIdle

\* the first call has returned: split_text_into_words(T + "\n") (lines 22-38)
ElideSecondCall ==
    /\ pc = "split_done"
    /\ first_call_words = None
    /\ first_call_words' = Some(words)
    /\ text' = Append(text, "\n")
    /\ normalized_string' = nfc(text')
    /\ words' = <<>>
    /\ current_word_start' = 0
    /\ last_char_idx' = 0
    /\ last_char' = "0"
    /\ last_char_was_whitespace' = FALSE
    /\ char_pos' = 1
    /\ removed_return' = FALSE
    /\ pc' = "split_loop"
    /\ UNCHANGED <<posVars, cssVars, alignVars, hitVars, fontVars, widthVars, caretVars,
                   glyphVars, iterVars, lineHeightVars, trailingVars>>

ElideNext == SplitLoop \/ SplitFinish \/ ElideSecondCall

SpecElide == ElideInit /\ [][ElideNext]_vars

\* both calls have returned
BothCallsReturned == pc = "split_done" /\ first_call_words # None

\* C28: for every text T whose last character is not '\n' (the empty text
\* and texts ending in '\r', a space or a multi-byte character included),
\* split_text_into_words(T + "\n") returns the token list of
\* split_text_into_words(T).
C28_TrailingNewlineElided == BothCallsReturned => words = first_call_words[1]

(***************************************************************************)
(* position_words followed by word_positions_to_inline_text_layout         *)
(* (text_layout.rs, lines 371-376) and InlineTextLayout::get_trailing      *)
(* (ui_solver.rs, lines 48-54) on the layout it built.                     *)
(***************************************************************************)
\* word_positions_to_inline_text_layout
word_positions_to_inline_text_layout(wp) ==
    [lines |-> wp.line_breaks, content_size |-> wp.content_size]

\* InlineTextLayout::get_trailing: match self.lines.first()
InlineTextLayout_get_trailing(self) ==
    IF self.lines = <<>>
    THEN 0
    ELSE self.lines[1].bounds.origin.x + self.lines[1].bounds.size.width

\* position_words has returned: the layout is built from its WordPositions
TrailingBuildLayout ==
    /\ pc = "pos_done"
    /\ built_inline_text_layout' =
          Some(word_positions_to_inline_text_layout(
                  [line_breaks |-> line_breaks, content_size |-> result.content_size]))
    /\ pc' = "trailing_call"
    /\ UNCHANGED <<get_trailing_returned, nonTrailingVars>>

\* inline_text_layout.get_trailing()
TrailingCall ==
    /\ pc = "trailing_call"
    /\ get_trailing_returned' = Some(InlineTextLayout_get_trailing(built_inline_text_layout[1]))
    /\ pc' = "trailing_done"
    /\ UNCHANGED <<built_inline_text_layout, nonTrailingVars>>

TrailingNext == PosNext \/ TrailingBuildLayout \/ TrailingCall

SpecTrailing == InitOfPos /\ [][TrailingNext]_vars

\* C29: for the InlineTextLayout built from the WordPositions of
\* position_words, of one line or of several, get_trailing() returns the
\* right edge of the last line, which is WordPositions.trailing.
C29_TrailingIsLastLineRightEdge ==
    pc = "trailing_done" =>
        LET lines == built_inline_text_layout[1].lines
            last == lines[Len(lines)]
        IN  /\ get_trailing_returned[1] = last.bounds.origin.x + last.bounds.size.width
            /\ get_trailing_returned[1] = result.trailing

\* C30: for a non-empty token list, every InlineTextLine of line_breaks has
\* word_start <= word_end < the number of tokens, the last line of a text
\* that ends in Space tokens after a Return included.
C30_LineRangesWellFormed ==
    (pc = "pos_done" /\ words_items # <<>>) =>
        \A l \in DOMAIN line_breaks :
            /\ line_breaks[l].word_start <= line_breaks[l].word_end
            /\ line_breaks[l].word_end < Len(words_items)

====
